---- MODULE Spec2Model ----
(***************************************************************************)
(* TOCSEA front end: the recommendation-extraction pipeline                *)
(* (formatRecommendations and its helpers) and the request/response flow   *)
(* that renders its result (handleFormSubmit, displayResults,              *)
(* fetchRecommendations, resetResults).                                    *)
(*                                                                         *)
(* Strings are sequences of UTF-16 code units, each code unit written as a *)
(* one-character TLA+ string.  The model alphabet stands for:              *)
(*   "M" "m" "a"  ASCII letters (M is the upper case of m)                 *)
(*   "1" "2"      decimal digits                                           *)
(*   "-"          hyphen-minus                                             *)
(*   " " "\n"     space and line feed                                      *)
(*   "~"          U+201A, a member of the class of part_002 line 319       *)
(*   "@"          U+2265, a member of the classes of part_002 lines 341,   *)
(*                393 and 402                                              *)
(*   "?"          question mark                                            *)
(*   "&"          U+D83C, the high surrogate of the plant emojis (a member *)
(*                of the character classes of script.js, which have no u   *)
(*                flag; in no class of part_002)                           *)
(*   "="          U+2013 en dash (a separator in script.js; in no class of *)
(*                part_002, whose dash class holds other characters)       *)
(***************************************************************************)
EXTENDS Integers, Sequences, FiniteSets, TLC

VARIABLES
    build,            \* which rewrite of formatRecommendations runs
    recommendations,  \* the argument of formatRecommendations
    pc,               \* the position of formatRecommendations in its body
    items,            \* its local array items
    ran,              \* the extraction passes whose body has run, in order
    output,           \* what it returns
    form,             \* the values of the form fields
    alerted,          \* whether the last submission raised the alert dialog
    dom,              \* display state and content of the page elements
    pending,          \* the recommendation fetches that have not settled
    submitted,        \* how many fetches were issued; the last one's number
    lastReply,        \* the provider reply handled last, with its request
    pdf,              \* the PDF library and what the downloads have done
    call,             \* the function that is applied on its own
    arg,              \* its argument
    step,             \* how far the application is
    returned          \* what it has returned so far, call by call

pipeVars == <<build, recommendations, pc, items, ran, output>>
uiVars == <<form, alerted, dom, pending, submitted, lastReply, pdf>>
fnVars == <<call, arg, step, returned>>
vars == <<build, recommendations, pc, items, ran, output,
          form, alerted, dom, pending, submitted, lastReply, pdf,
          call, arg, step, returned>>

(***************************************************************************)
(* Bounds of the model.                                                    *)
(***************************************************************************)
MaxTokens == 3
MaxRequests == 2
MaxUnits == 3
MaxWords == 2
MaxLines == 5
MaxRows == 2
\* the clicks on the download button that are followed
MaxCalls == 4

(***************************************************************************)
(* Character classes.                                                      *)
(***************************************************************************)
Letters == {"M", "m", "a"}
Digits == {"1", "2"}
WhiteSpace == {" ", "\n", "\t"}
LineTerminators == {"\n"}
Alphabet == Letters \cup Digits \cup WhiteSpace \cup {"-", "~", "@", "?", "&", "="}

UpperCase == <<"A","B","C","D","E","F","G","H","I","J","K","L","M",
               "N","O","P","Q","R","S","T","U","V","W","X","Y","Z">>
LowerCase == <<"a","b","c","d","e","f","g","h","i","j","k","l","m",
               "n","o","p","q","r","s","t","u","v","w","x","y","z">>
\* [a-zA-Z]
AsciiLetters == {UpperCase[i] : i \in 1..26} \cup {LowerCase[i] : i \in 1..26}
\* every code unit a string of the model can hold
AnyChar == Alphabet \cup AsciiLetters \cup {":", ",", "'", "#", "*", ".", ")", "U+2022", "3"}
\* the class of . (every code unit but the line terminators)
Dot == AnyChar \ LineTerminators

\* part_002 line 319: /[...]/g, the characters mapped to a hyphen
dashVariants == {"~"}
\* part_002 line 341: the class of validEmojiPattern
validEmojiClass == {"@"}
\* part_002 line 393: the class of emojiPattern (adds the question mark)
emojiSplitClass == {"@", "?"}
\* part_002 line 402: the class of the trailing-glyph cut
trailingEmojiClass == {"@"}
\* part_002 lines 346, 378, 418: the variation selector U+FE0F
variationSelector == {"U+FE0F"}

(***************************************************************************)
(* String helpers (String.prototype.trim, split, toLowerCase, includes).   *)
(***************************************************************************)
RECURSIVE TrimStart(_)
TrimStart(s) ==
    IF s # <<>> /\ Head(s) \in WhiteSpace THEN TrimStart(Tail(s)) ELSE s

RECURSIVE TrimEnd(_)
TrimEnd(s) ==
    IF s # <<>> /\ s[Len(s)] \in WhiteSpace
    THEN TrimEnd(SubSeq(s, 1, Len(s) - 1)) ELSE s

Trim(s) == TrimEnd(TrimStart(s))

\* s.replace(/[cls]/g, by) for a one-character class
ReplaceClass(s, cls, by) ==
    [i \in 1..Len(s) |-> IF s[i] \in cls THEN by ELSE s[i]]

\* s.replace(/[cls]/g, '')
RemoveClass(s, cls) == SelectSeq(s, LAMBDA c : c \notin cls)

\* index of the first code unit of s at or after from that is in cls, 0 if none
FirstIndexIn(s, cls, from) ==
    IF \A i \in from..Len(s) : s[i] \notin cls THEN 0
    ELSE CHOOSE i \in from..Len(s) :
             s[i] \in cls /\ \A j \in from..(i - 1) : s[j] \notin cls

RECURSIVE Split(_, _)
\* s.split(sep) for a one-character separator
Split(s, sep) ==
    LET i == FirstIndexIn(s, {sep}, 1) IN
    IF i = 0 THEN <<s>>
    ELSE <<SubSeq(s, 1, i - 1)>> \o Split(SubSeq(s, i + 1, Len(s)), sep)

RECURSIVE SplitCapture(_, _)
\* s.split(/([cls])/g): the pieces and the separators, alternating
SplitCapture(s, cls) ==
    LET i == FirstIndexIn(s, cls, 1) IN
    IF i = 0 THEN <<s>>
    ELSE <<SubSeq(s, 1, i - 1), <<s[i]>>>> \o SplitCapture(SubSeq(s, i + 1, Len(s)), cls)

RECURSIVE Flatten(_)
\* the concatenation of the strings (or of the pushed item lists) of ss
Flatten(ss) == IF ss = <<>> THEN <<>> ELSE Head(ss) \o Flatten(Tail(ss))

RECURSIVE Join(_, _)
Join(ss, sep) ==
    IF ss = <<>> THEN <<>>
    ELSE IF Len(ss) = 1 THEN ss[1]
    ELSE ss[1] \o sep \o Join(Tail(ss), sep)

\* String.prototype.toLowerCase and toUpperCase on one code unit
LowerOf == [c \in {UpperCase[i] : i \in 1..26} |->
               LowerCase[CHOOSE i \in 1..26 : UpperCase[i] = c]]
UpperOf == [c \in {LowerCase[i] : i \in 1..26} |->
               UpperCase[CHOOSE i \in 1..26 : LowerCase[i] = c]]
LowerChar(c) == IF c \in DOMAIN LowerOf THEN LowerOf[c] ELSE c
UpperChar(c) == IF c \in DOMAIN UpperOf THEN UpperOf[c] ELSE c

\* the pattern of a literal word under the i flag
Word(w) == [i \in 1..Len(w) |-> [t |-> "set", cls |-> {w[i], UpperChar(w[i])}]]

StartsWith(s, prefix) ==
    Len(s) >= Len(prefix) /\ \A k \in 1..Len(prefix) : s[k] = prefix[k]

toLowerCase(s) == [i \in 1..Len(s) |-> LowerChar(s[i])]

\* name.includes(key)
Includes(s, key) ==
    \E i \in 1..(Len(s) - Len(key) + 1) : \A k \in 1..Len(key) : s[i + k - 1] = key[k]

HasDigit(s) == \E i \in 1..Len(s) : s[i] \in Digits

(***************************************************************************)
(* Regular expressions, with the backtracking order of RegExp.prototype    *)
(* .exec: a pattern is a sequence of nodes, the alternatives of every      *)
(* quantifier are tried in its priority order (greedy: longest first,      *)
(* lazy: shortest first) and the first complete match wins.                *)
(***************************************************************************)
Bol == [t |-> "bol"]
Eol == [t |-> "eol"]
Open(i) == [t |-> "open", i |-> i]
Close(i) == [t |-> "close", i |-> i]
One(cls) == [t |-> "set", cls |-> cls]
\* max = -1 stands for no upper limit
Rep(cls, min, max, greedy) ==
    [t |-> "rep", cls |-> cls, min |-> min, max |-> max, greedy |-> greedy]
RepSeq(body, greedy) == [t |-> "repseq", body |-> body, greedy |-> greedy]
Look(alts) == [t |-> "look", alts |-> alts]
Alt(alts) == [t |-> "alt", alts |-> alts]

NoCaps == [i \in 1..4 |-> <<0, 0>>]
Fail == [ok |-> FALSE, start |-> 0, end |-> 0, caps |-> NoCaps]

\* how many code units of cls follow position pos, at most max of them
\* (no limit for a negative max)
RunLen(s, cls, pos, max) ==
    LET last == IF max < 0 \/ pos + max - 1 > Len(s) THEN Len(s) ELSE pos + max - 1 IN
    IF \A i \in pos..last : s[i] \in cls
    THEN (IF last < pos THEN 0 ELSE last - pos + 1)
    ELSE (CHOOSE i \in pos..last :
              s[i] \notin cls /\ \A j \in pos..(i - 1) : s[j] \in cls) - pos

RECURSIVE M(_, _, _, _)
RECURSIVE TryRep(_, _, _, _, _, _, _)
RECURSIVE TryAlt(_, _, _, _, _, _)

\* the match of nodes at position pos of s, the captures so far being caps
M(s, nodes, pos, caps) ==
    IF Len(nodes) = 0 THEN [ok |-> TRUE, start |-> 0, end |-> pos, caps |-> caps]
    ELSE LET n == Head(nodes)
             rest == Tail(nodes)
         IN CASE n.t = "bol" -> IF pos = 1 THEN M(s, rest, pos, caps) ELSE Fail
              [] n.t = "eol" -> IF pos = Len(s) + 1 THEN M(s, rest, pos, caps) ELSE Fail
              [] n.t = "open" ->
                    M(s, rest, pos, [caps EXCEPT ![n.i] = <<pos, pos>>])
              [] n.t = "close" ->
                    M(s, rest, pos, [caps EXCEPT ![n.i] = <<caps[n.i][1], pos>>])
              [] n.t = "set" ->
                    IF pos <= Len(s) /\ s[pos] \in n.cls
                    THEN M(s, rest, pos + 1, caps) ELSE Fail
              [] n.t = "rep" ->
                    LET hi == RunLen(s, n.cls, pos, n.max) IN
                    IF hi < n.min THEN Fail
                    ELSE TryRep(s, n, rest, pos, caps, IF n.greedy THEN hi ELSE n.min, hi)
              [] n.t = "repseq" ->
                    LET again == M(s, n.body \o <<n>> \o rest, pos, caps)
                        skip == M(s, rest, pos, caps)
                    IN IF n.greedy
                       THEN (IF again.ok THEN again ELSE skip)
                       ELSE (IF skip.ok THEN skip ELSE again)
              [] n.t = "look" ->
                    IF \E a \in 1..Len(n.alts) : M(s, n.alts[a], pos, caps).ok
                    THEN M(s, rest, pos, caps) ELSE Fail
              [] n.t = "alt" -> TryAlt(s, n, rest, pos, caps, 1)

\* the alternatives of n from the a-th on, in their order
TryAlt(s, n, rest, pos, caps, a) ==
    IF a > Len(n.alts) THEN Fail
    ELSE LET r == M(s, n.alts[a] \o rest, pos, caps) IN
         IF r.ok THEN r ELSE TryAlt(s, n, rest, pos, caps, a + 1)

\* the quantifier n taking k code units, then the next choice in its order
TryRep(s, n, rest, pos, caps, k, hi) ==
    LET r == M(s, rest, pos + k, caps) IN
    IF r.ok THEN r
    ELSE IF n.greedy
         THEN (IF k > n.min THEN TryRep(s, n, rest, pos, caps, k - 1, hi) ELSE Fail)
         ELSE (IF k < hi THEN TryRep(s, n, rest, pos, caps, k + 1, hi) ELSE Fail)

\* the next position after from at which a match of nodes can start: none
\* for a pattern anchored at the start, the next code unit of its class for
\* a pattern that starts with a class
NextStart(s, nodes, from) ==
    IF nodes = <<>> THEN from + 1
    ELSE IF nodes[1].t = "bol" THEN Len(s) + 2
    ELSE IF nodes[1].t = "set"
    THEN LET i == FirstIndexIn(s, nodes[1].cls, from + 1) IN
         IF i = 0 THEN Len(s) + 2 ELSE i
    ELSE from + 1

RECURSIVE Exec(_, _, _)
\* regex.exec(s) with lastIndex = from - 1: the leftmost match at or after from
Exec(s, nodes, from) ==
    IF from > Len(s) + 1 THEN Fail
    ELSE LET r == M(s, nodes, from, NoCaps) IN
         IF r.ok THEN [r EXCEPT !.start = from]
         ELSE Exec(s, nodes, NextStart(s, nodes, from))

\* match[i]
Group(s, r, i) == SubSeq(s, r.caps[i][1], r.caps[i][2] - 1)

\* regex.test(s)
Test(s, nodes) == Exec(s, nodes, 1).ok

RECURSIVE ExecAll(_, _, _)
\* the matches of the loop while ((match = regex.exec(s)) !== null) of a
\* pattern with the g flag: every exec resumes at lastIndex, the end of the
\* previous match
ExecAll(s, nodes, from) ==
    LET r == Exec(s, nodes, from) IN
    IF ~r.ok THEN <<>> ELSE <<r>> \o ExecAll(s, nodes, r.end)

RECURSIVE RemoveAllMatches(_, _, _)
\* s.replace(regex, '') with the g flag, from position from on
RemoveAllMatches(s, nodes, from) ==
    LET r == Exec(s, nodes, from) IN
    IF ~r.ok THEN SubSeq(s, from, Len(s))
    ELSE IF r.end > r.start
         THEN SubSeq(s, from, r.start - 1) \o RemoveAllMatches(s, nodes, r.end)
         ELSE IF r.start > Len(s) THEN SubSeq(s, from, Len(s))
         ELSE SubSeq(s, from, r.start) \o RemoveAllMatches(s, nodes, r.start + 1)

\* s.replace(regex, '') without the g flag
RemoveFirstMatch(s, nodes) ==
    LET r == Exec(s, nodes, 1) IN
    IF r.ok THEN SubSeq(s, 1, r.start - 1) \o SubSeq(s, r.end, Len(s)) ELSE s

(***************************************************************************)
(* getPlantEmoji (part_002 lines 251-300).  A glyph is written as the      *)
(* one-element string of its code point.                                   *)
(***************************************************************************)
PalmTree == <<"U+1F334">>
Herb == <<"U+1F33F">>
DeciduousTree == <<"U+1F333">>
SheafOfRice == <<"U+1F33E">>
Seedling == <<"U+1F331">>
EvergreenTree == <<"U+1F332">>

\* the keys of emojiMap in insertion order, and their glyphs
emojiMapKeys ==
    << <<"c","o","c","o","n","u","t">>, <<"p","a","n","d","a","n">>,
       <<"m","a","h","o","g","a","n","y">>, <<"v","e","t","i","v","e","r">>,
       <<"b","a","m","b","o","o">>, <<"a","c","a","c","i","a">>,
       <<"e","u","c","a","l","y","p","t","u","s">>,
       <<"c","a","s","u","a","r","i","n","a">>,
       <<"l","e","u","c","a","e","n","a">>, <<"t","a","m","a","r","i","n","d">>,
       <<"t","e","r","m","i","n","a","l","i","a">>, <<"g","m","e","l","i","n","a">>,
       <<"m","e","l","a","l","e","u","c","a">>, <<"p","i","n","u","s">>,
       <<"p","i","n","e">>, <<"g","r","a","s","s">>, <<"t","r","e","e">>,
       <<"p","l","a","n","t">> >>
emojiMapGlyphs ==
    << PalmTree, Herb, DeciduousTree, SheafOfRice, Herb, DeciduousTree,
       DeciduousTree, DeciduousTree, Seedling, DeciduousTree, DeciduousTree,
       DeciduousTree, DeciduousTree, EvergreenTree, EvergreenTree, SheafOfRice,
       DeciduousTree, Seedling >>

\* sortedKeys: the first key, in descending length and then insertion order,
\* that the name includes; 0 if the name includes no key
LongestKeyIn(name) ==
    LET hit == {k \in 1..Len(emojiMapKeys) : Includes(name, emojiMapKeys[k])} IN
    IF hit = {} THEN 0
    ELSE CHOOSE k \in hit : \A j \in hit :
            \/ Len(emojiMapKeys[k]) > Len(emojiMapKeys[j])
            \/ Len(emojiMapKeys[k]) = Len(emojiMapKeys[j]) /\ k <= j

\* line 253: emojiMap is an object literal, so emojiMap[name] also finds
\* the properties of Object.prototype whose names are lower case; their
\* values are a function and an object, both truthy and neither a string
inheritedProperties ==
    [key \in { <<"c","o","n","s","t","r","u","c","t","o","r">>,
               <<"_","_","p","r","o","t","o","_","_">> } |->
        IF key[1] = "c" THEN <<"function Object">> ELSE <<"Object.prototype">>]

getPlantEmoji(plantName) ==
    LET name == Trim(toLowerCase(plantName))
        exact == {k \in 1..Len(emojiMapKeys) : emojiMapKeys[k] = name}
        part == LongestKeyIn(name)
    IN IF exact # {} THEN emojiMapGlyphs[CHOOSE k \in exact : TRUE]
       ELSE IF name \in DOMAIN inheritedProperties THEN inheritedProperties[name]
       ELSE IF part # 0 THEN emojiMapGlyphs[part]
       ELSE IF Includes(name, <<"t","r","e","e">>) \/ Includes(name, <<"w","o","o","d">>)
            THEN DeciduousTree
       ELSE IF Includes(name, <<"g","r","a","s","s">>)
               \/ Includes(name, <<"v","e","t","i","v","e","r">>)
            THEN SheafOfRice
       ELSE IF Includes(name, <<"b","a","m","b","o","o">>)
               \/ Includes(name, <<"p","a","n","d","a","n">>)
            THEN Herb
       ELSE IF Includes(name, <<"c","o","c","o","n","u","t">>)
               \/ Includes(name, <<"p","a","l","m">>)
            THEN PalmTree
       ELSE Seedling

(***************************************************************************)
(* formatRecommendations of part_002 (lines 309-501).                      *)
(***************************************************************************)
\* line 332 with (\d*) for (\d+): the number may be missing
multilinePattern_OptionalNumber ==
    << Bol, Open(1), Rep(Dot, 0, 3, FALSE), Close(1), Rep(WhiteSpace, 0, -1, TRUE),
       Open(2), Rep(Dot, 1, -1, FALSE), Close(2), Rep(WhiteSpace, 0, -1, TRUE),
       One({"-"}), Rep(WhiteSpace, 0, -1, TRUE),
       Open(3), Rep(Digits, 0, -1, TRUE), Close(3), Rep(WhiteSpace, 1, -1, TRUE),
       Open(4), Rep(Dot, 1, -1, TRUE), Close(4), Eol >>

\* line 332: /^(.{0,3}?)\s*(.+?)\s*-\s*(\d+)\s+(.+)$/
multilinePattern ==
    << Bol, Open(1), Rep(Dot, 0, 3, FALSE), Close(1), Rep(WhiteSpace, 0, -1, TRUE),
       Open(2), Rep(Dot, 1, -1, FALSE), Close(2), Rep(WhiteSpace, 0, -1, TRUE),
       One({"-"}), Rep(WhiteSpace, 0, -1, TRUE),
       Open(3), Rep(Digits, 1, -1, TRUE), Close(3), Rep(WhiteSpace, 1, -1, TRUE),
       Open(4), Rep(Dot, 1, -1, TRUE), Close(4), Eol >>

\* line 363, the lookahead alternative \s*.{0,3}?\s+[^-]+?-\s*\d+
nextItemAhead ==
    << Rep(WhiteSpace, 0, -1, TRUE), Rep(Dot, 0, 3, FALSE), Rep(WhiteSpace, 1, -1, TRUE),
       Rep(AnyChar \ {"-"}, 1, -1, FALSE), One({"-"}), Rep(WhiteSpace, 0, -1, TRUE),
       Rep(Digits, 1, -1, TRUE) >>

\* line 363: /(.{0,3}?)\s+([^-]+?)\s*-\s*(\d+)\s+([a-zA-Z]+(?:\s+[a-zA-Z]+)*?)
\*            (?=\s*.{0,3}?\s+[^-]+?-\s*\d+|$)/g
globalPattern ==
    << Open(1), Rep(Dot, 0, 3, FALSE), Close(1), Rep(WhiteSpace, 1, -1, TRUE),
       Open(2), Rep(AnyChar \ {"-"}, 1, -1, FALSE), Close(2),
       Rep(WhiteSpace, 0, -1, TRUE), One({"-"}), Rep(WhiteSpace, 0, -1, TRUE),
       Open(3), Rep(Digits, 1, -1, TRUE), Close(3), Rep(WhiteSpace, 1, -1, TRUE),
       Open(4), Rep(AsciiLetters, 1, -1, TRUE),
       RepSeq(<<Rep(WhiteSpace, 1, -1, TRUE), Rep(AsciiLetters, 1, -1, TRUE)>>, FALSE),
       Close(4), Look(<<nextItemAhead, <<Eol>> >>) >>

\* line 402: /\s+[...].*$/
trailingEmojiPattern ==
    << Rep(WhiteSpace, 1, -1, TRUE), One(trailingEmojiClass), Rep(Dot, 0, -1, TRUE), Eol >>

\* line 405: /^(.+?)\s*-\s*(\d+)\s+(.+)$/
itemPattern ==
    << Bol, Open(1), Rep(Dot, 1, -1, FALSE), Close(1), Rep(WhiteSpace, 0, -1, TRUE),
       One({"-"}), Rep(WhiteSpace, 0, -1, TRUE),
       Open(2), Rep(Digits, 1, -1, TRUE), Close(2), Rep(WhiteSpace, 1, -1, TRUE),
       Open(3), Rep(Dot, 1, -1, TRUE), Close(3), Eol >>

\* line 440: /^([A-Za-z\s]+?)\s*-\s*(\d+)\s+(.+)$/
plainPattern ==
    << Bol, Open(1), Rep(AsciiLetters \cup WhiteSpace, 1, -1, FALSE), Close(1),
       Rep(WhiteSpace, 0, -1, TRUE), One({"-"}), Rep(WhiteSpace, 0, -1, TRUE),
       Open(2), Rep(Digits, 1, -1, TRUE), Close(2), Rep(WhiteSpace, 1, -1, TRUE),
       Open(3), Rep(Dot, 1, -1, TRUE), Close(3), Eol >>

\* lines 341, 373, 413: /[...]/
validEmojiPattern == << One(validEmojiClass) >>

\* line 319
normalized(text) == Trim(ReplaceClass(text, dashVariants, "-"))

\* line 322
lines(text) == SelectSeq(Split(normalized(text), "\n"), LAMBDA line : Trim(line) # <<>>)

\* lines 342-347 (and 374-379, 414-419): the glyph kept for an item
resolveEmoji(emoji, name) ==
    IF emoji = <<>> \/ ~Test(emoji, validEmojiPattern) \/ emoji = <<"?">>
    THEN getPlantEmoji(name)
    ELSE RemoveClass(emoji, variationSelector)

\* lines 352, 385, 425, 451 with the number left out of the quantity text
Item_UnitOnly(emoji, name, quantity, unit) ==
    [emoji |-> emoji, name |-> name, quantity |-> unit]

\* lines 349-353, 382-386, 422-426, 448-452: the pushed item
Item(emoji, name, quantity, unit) ==
    [emoji |-> emoji, name |-> name, quantity |-> quantity \o <<" ">> \o unit]

\* lines 326-355: what the multi-line loop pushes for one line
multilineLine(line) ==
    LET trimmed == Trim(line)
        match == Exec(trimmed, multilinePattern, 1)
        name == Trim(Group(trimmed, match, 2))
    IN IF trimmed = <<>> \/ ~match.ok THEN <<>>
       ELSE << Item(resolveEmoji(Trim(Group(trimmed, match, 1)), name), name,
                    Trim(Group(trimmed, match, 3)), Trim(Group(trimmed, match, 4))) >>

\* lines 325-356
multilineStrategy(text) ==
    LET ls == lines(text) IN
    IF Len(ls) > 1 THEN Flatten([i \in 1..Len(ls) |-> multilineLine(ls[i])]) ELSE <<>>

\* lines 367-387: what one match of the global scan pushes
globalMatch(text, match) ==
    LET name == Trim(Group(text, match, 2))
        quantity == Trim(Group(text, match, 3))
        unit == Trim(Group(text, match, 4))
    IN IF name # <<>> /\ quantity # <<>> /\ unit # <<>>
       THEN << Item(resolveEmoji(Trim(Group(text, match, 1)), name), name, quantity, unit) >>
       ELSE <<>>

\* line 366 with a pattern that lacks the g flag: every exec starts at the
\* beginning of the text
execGlobalPattern_NoFlag(text, lastIndex) == Exec(text, globalPattern, 1)

\* line 366: globalPattern.exec(normalized) with the g flag, lastIndex
\* being the index (from 0) at which the exec starts
execGlobalPattern(text, lastIndex) == Exec(text, globalPattern, lastIndex + 1)

\* lines 363-388
singleLineStrategy(text) ==
    LET n == normalized(text)
        matches == ExecAll(n, globalPattern, 1)
    IN Flatten([i \in 1..Len(matches) |-> globalMatch(n, matches[i])])

\* lines 397-429: what the glyph-split loop pushes at the odd index i
glyphSplitPart(parts, i) ==
    IF i + 1 > Len(parts) THEN <<>>
    ELSE LET emoji == Trim(parts[i])
             content == RemoveFirstMatch(Trim(parts[i + 1]), trailingEmojiPattern)
             itemMatch == Exec(content, itemPattern, 1)
             name == Trim(Group(content, itemMatch, 1))
             quantity == Trim(Group(content, itemMatch, 2))
             unit == Trim(Group(content, itemMatch, 3))
         IN IF itemMatch.ok /\ name # <<>> /\ quantity # <<>> /\ unit # <<>>
            THEN << Item(resolveEmoji(emoji, name), name, quantity, unit) >>
            ELSE <<>>

\* lines 393-430
glyphSplitStrategy(text) ==
    LET parts == SplitCapture(normalized(text), emojiSplitClass)
    IN Flatten([k \in 1..(Len(parts) \div 2) |-> glyphSplitPart(parts, 2 * k)])

\* lines 435-455: what the plain loop pushes for one line
plainLine(line) ==
    LET trimmed == Trim(line)
        match == Exec(trimmed, plainPattern, 1)
        name == Trim(Group(trimmed, match, 1))
        quantity == Trim(Group(trimmed, match, 2))
        unit == Trim(Group(trimmed, match, 3))
    IN IF trimmed # <<>> /\ match.ok /\ name # <<>> /\ quantity # <<>> /\ unit # <<>>
       THEN << Item(getPlantEmoji(name), name, quantity, unit) >>
       ELSE <<>>

\* lines 434-456
plainStrategy(text) ==
    LET ls == lines(text) IN Flatten([i \in 1..Len(ls) |-> plainLine(ls[i])])

\* the guard of lines 359, 392, 434 left out: every strategy runs
stillEmpty_Always(found) == TRUE

\* lines 359, 392, 434: if (items.length === 0)
stillEmpty(found) == Len(found) = 0

\* line 483-485: String.fromCodePoint(emojiHtml.codePointAt(0))
FirstCodePoint(glyph) == IF glyph = <<>> THEN <<>> ELSE <<glyph[1]>>

\* lines 472-496: the table row of one item
tableRow(item) ==
    LET emojiHtml == IF item.emoji = <<>> \/ item.emoji = <<"?">>
                        \/ ~Test(item.emoji, validEmojiPattern)
                     THEN getPlantEmoji(item.name) ELSE item.emoji
    IN [emoji |-> FirstCodePoint(emojiHtml), name |-> item.name, quantity |-> item.quantity]

NoOutput == [kind |-> "none", rows |-> <<>>, text |-> <<>>]

\* the check of line 462 left out: a table is built from any item list
buildTable_NoEmptyCheck(text, found) ==
    [kind |-> "table", rows |-> [i \in 1..Len(found) |-> tableRow(found[i])], text |-> <<>>]

\* line 465 showing the normalized text in place of the argument
buildTable_Normalized(text, found) ==
    IF Len(found) = 0
    THEN [kind |-> "fallback", rows |-> <<>>, text |-> normalized(text)]
    ELSE [kind |-> "table", rows |-> [i \in 1..Len(found) |-> tableRow(found[i])],
          text |-> <<>>]

\* lines 461-500: the returned HTML, as the raw-text block or the table rows
buildTable(text, found) ==
    IF Len(found) = 0
    THEN [kind |-> "fallback", rows |-> <<>>, text |-> text]
    ELSE [kind |-> "table", rows |-> [i \in 1..Len(found) |-> tableRow(found[i])],
          text |-> <<>>]

\* lines 359, 392, 434: a strategy runs while no item was found
thenTry(found, strategyItems) ==
    IF stillEmpty(found) THEN found \o strategyItems ELSE found

\* lines 324-456: the items after the four strategies
extractItems(text) ==
    thenTry(thenTry(thenTry(multilineStrategy(text), singleLineStrategy(text)),
                    glyphSplitStrategy(text)),
            plainStrategy(text))

\* lines 309-501
formatRecommendations(text) == buildTable(text, extractItems(text))

(***************************************************************************)
(* formatRecommendations of script.js (lines 230-406).                     *)
(***************************************************************************)
\* the code units of the class [...] of lines 240, 241, 300, 354 (no u flag)
plantGlyphUnits == {"&"}
\* the class of lines 240, 241, 354, 356: en dash, hyphen, colon
separators == {"=", "-", ":"}

\* line 240: /[...]?\s*([^sep0-9]+?)\s*[sep]\s*(\d+)\s*([^sep]*)/i
namePattern ==
    << Rep(plantGlyphUnits, 0, 1, TRUE), Rep(WhiteSpace, 0, -1, TRUE),
       Open(1), Rep(AnyChar \ (separators \cup Digits), 1, -1, FALSE), Close(1),
       Rep(WhiteSpace, 0, -1, TRUE), One(separators), Rep(WhiteSpace, 0, -1, TRUE),
       Open(2), Rep(Digits, 1, -1, TRUE), Close(2), Rep(WhiteSpace, 0, -1, TRUE),
       Open(3), Rep(AnyChar \ separators, 0, -1, TRUE), Close(3) >>

\* line 241: /(\d+)\s*[sep]\s*[...]?\s*([^sep]+)/i
numberPattern ==
    << Open(1), Rep(Digits, 1, -1, TRUE), Close(1), Rep(WhiteSpace, 0, -1, TRUE),
       One(separators), Rep(WhiteSpace, 0, -1, TRUE),
       Rep(plantGlyphUnits, 0, 1, TRUE), Rep(WhiteSpace, 0, -1, TRUE),
       Open(2), Rep(AnyChar \ separators, 1, -1, TRUE), Close(2) >>

patterns == <<namePattern, numberPattern>>

\* lines 301, 344, 357: /\s*(recommended|trees?|plants?|clumps?|clusters?)\s*$/gi
descriptorPattern ==
    << Rep(WhiteSpace, 0, -1, TRUE),
       Alt(<< Word(<<"r","e","c","o","m","m","e","n","d","e","d">>),
              Word(<<"t","r","e","e">>) \o <<Rep({"s", "S"}, 0, 1, TRUE)>>,
              Word(<<"p","l","a","n","t">>) \o <<Rep({"s", "S"}, 0, 1, TRUE)>>,
              Word(<<"c","l","u","m","p">>) \o <<Rep({"s", "S"}, 0, 1, TRUE)>>,
              Word(<<"c","l","u","s","t","e","r">>) \o <<Rep({"s", "S"}, 0, 1, TRUE)>> >>),
       Rep(WhiteSpace, 0, -1, TRUE), Eol >>

\* line 305: /\d+\s*([a-z]+)/i
unitPattern ==
    << Rep(Digits, 1, -1, TRUE), Rep(WhiteSpace, 0, -1, TRUE),
       Open(1), Rep(AsciiLetters, 1, -1, TRUE), Close(1) >>

\* line 342: /^(\d+)\s+([a-z\s]+)/i
numFirstPattern ==
    << Bol, Open(1), Rep(Digits, 1, -1, TRUE), Close(1), Rep(WhiteSpace, 1, -1, TRUE),
       Open(2), Rep(AsciiLetters \cup WhiteSpace, 1, -1, TRUE), Close(2) >>

\* lines 272, 338, 353: /\d+/ and /(\d+)/
digitsPattern == << Open(1), Rep(Digits, 1, -1, TRUE), Close(1) >>

\* line 354: /^[...]?\s*([^0-9sep]+)/
leadingNamePattern ==
    << Bol, Rep(plantGlyphUnits, 0, 1, TRUE), Rep(WhiteSpace, 0, -1, TRUE),
       Open(1), Rep(AnyChar \ (separators \cup Digits), 1, -1, TRUE), Close(1) >>

\* line 356: /[sep]\s*$/
trailingSeparatorPattern == << One(separators), Rep(WhiteSpace, 0, -1, TRUE), Eol >>

\* lines 252-277: the vocabulary whose presence drops a line
noiseWords ==
    <<
       <<"b","a","s","e","d"," ","o","n">>, <<"o","k","a","y",","," ","s","o">>,
       <<"i"," ","n","e","e","d"," ","t","o">>,
       <<"i"," ","r","e","m","e","m","b","e","r">>, <<"i"," ","t","h","i","n","k">>,
       <<"m","a","y","b","e">>, <<"h","m","m">>, <<"w","a","i","t">>,
       <<"i","'","m"," ","n","o","t"," ","s","u","r","e">>,
       <<"i"," ","s","h","o","u","l","d">>,
       <<"p","u","t","t","i","n","g"," ","i","t"," ","a","l","l"," ","t","o","g","e","t","h","e","r">>,
       <<"t","o"," ","a","d","d","r","e","s","s">>,
       <<"i","m","p","o","r","t","a","n","t",":">>,
       <<"a","d","d","i","t","i","o","n","a","l">>,
       <<"m","a","i","n","t","e","n","a","n","c","e">>,
       <<"s","p","a","c","i","n","g",":">>, <<"b","e","n","e","f","i","t","s",":">>,
       <<"q","u","a","n","t","i","t","y",":">>, <<"h","e","c","t","a","r","e">>,
       <<"p","e","r"," ","h","e","c","t","a","r","e">>,
       <<"t","h","e","s","e"," ","s","p","e","c","i","e","s">>,
       <<"c","o","m","b","i","n","i","n","g">>, <<"p","r","o","v","i","d","e">>,
       <<"c","h","o","s","e","n"," ","f","o","r">>,
       <<"p","r","o","m","o","t","i","n","g">>
    >>

\* lines 248-278: the lines the first pass skips
isNoise(trimmed) ==
    LET lower == toLowerCase(trimmed) IN
    \/ trimmed = <<>>
    \/ StartsWith(trimmed, <<"#">>)
    \/ StartsWith(trimmed, <<"*", "*">>)
    \/ StartsWith(trimmed, <<"*">>)
    \/ \E w \in 1..Len(noiseWords) : Includes(lower, noiseWords[w])
    \/ /\ Includes(lower, <<"r","e","c","o","m","m","e","n","d","e","d">>)
       /\ ~Test(trimmed, digitsPattern)
    \/ Len(trimmed) > 100

\* lines 301, 344, 357
stripDescriptor(name) == Trim(RemoveAllMatches(name, descriptorPattern, 1))

\* lines 317-323, 362-366: the unit the name implies
defaultUnit(name) ==
    IF Includes(toLowerCase(name), <<"g","r","a","s","s">>) THEN <<"c","l","u","m","p","s">>
    ELSE IF Includes(toLowerCase(name), <<"b","a","m","b","o","o">>)
         THEN <<"c","l","u","s","t","e","r","s">>
    ELSE <<"t","r","e","e","s">>

\* lines 284-330: what one pattern pushes for a line
patternItem(trimmed, pattern) ==
    LET match == Exec(trimmed, pattern, 1)
        reversed == Group(trimmed, match, 1) # <<>>
                    /\ Test(Group(trimmed, match, 1), digitsPattern)
        quantity == IF reversed THEN Group(trimmed, match, 1) ELSE Group(trimmed, match, 2)
        raw == IF reversed THEN Trim(Group(trimmed, match, 2))
               ELSE Trim(Group(trimmed, match, 1))
        name == stripDescriptor(Trim(RemoveClass(raw, plantGlyphUnits)))
        matched == IF reversed THEN <<>> ELSE Trim(Group(trimmed, match, 3))
        unitMatch == Exec(trimmed, unitPattern, 1)
        unit == IF matched = <<>> /\ quantity # <<>> /\ unitMatch.ok
                THEN Group(trimmed, unitMatch, 1) ELSE matched
        quantityText == IF unit # <<>> /\ ~Includes(quantity, unit)
                        THEN quantity \o <<" ">> \o unit
                        ELSE IF unit = <<>> THEN quantity \o <<" ">> \o defaultUnit(name)
                        ELSE quantity
    IN IF match.ok /\ name # <<>> /\ quantity # <<>>
       THEN << [name |-> name, quantity |-> quantityText] >>
       ELSE <<>>

\* lines 244-332: what the first pass pushes for a line
patternLine(line) ==
    LET trimmed == Trim(line)
        byName == patternItem(trimmed, patterns[1])
    IN IF isNoise(trimmed) THEN <<>>
       ELSE IF byName # <<>> THEN byName
       ELSE patternItem(trimmed, patterns[2])

\* line 232
rawLines(text) == SelectSeq(Split(text, "\n"), LAMBDA line : Trim(line) # <<>>)

\* lines 244-332
patternPass(text) ==
    LET ls == rawLines(text) IN Flatten([i \in 1..Len(ls) |-> patternLine(ls[i])])

\* lines 337-371: what the simpler extraction pushes for a line
simpleLine(line) ==
    LET trimmed == Trim(line)
        numFirstMatch == Exec(trimmed, numFirstPattern, 1)
        firstName == stripDescriptor(Trim(Group(trimmed, numFirstMatch, 2)))
        numMatch == Exec(trimmed, digitsPattern, 1)
        nameMatch == Exec(trimmed, leadingNamePattern, 1)
        name == stripDescriptor(Trim(RemoveFirstMatch(Trim(Group(trimmed, nameMatch, 1)),
                                                      trailingSeparatorPattern)))
    IN IF ~(Test(trimmed, digitsPattern) /\ Len(trimmed) < 120) THEN <<>>
       ELSE IF numFirstMatch.ok /\ firstName # <<>> /\ Len(firstName) > 2
            THEN << [name |-> firstName,
                     quantity |-> Group(trimmed, numFirstMatch, 1) \o <<" ","t","r","e","e","s">>] >>
       ELSE IF numMatch.ok /\ nameMatch.ok /\ name # <<>> /\ Len(name) > 2
            THEN << [name |-> name,
                     quantity |-> Group(trimmed, numMatch, 1) \o <<" ">> \o defaultUnit(name)] >>
       ELSE <<>>

\* lines 335-373
simplePass(text) ==
    LET ls == rawLines(text) IN Flatten([i \in 1..Len(ls) |-> simpleLine(ls[i])])

RECURSIVE uniqueItems(_, _)
\* lines 376-384: the items whose lowercased name is not yet in seen
uniqueItems(found, seen) ==
    IF found = <<>> THEN <<>>
    ELSE LET key == toLowerCase(Head(found).name) IN
         IF key \in seen THEN uniqueItems(Tail(found), seen)
         ELSE <<Head(found)>> \o uniqueItems(Tail(found), seen \cup {key})

\* lines 375-386 left out, as in the rewrite of part_002
removeDuplicates_None(found) == found

\* lines 375-386
removeDuplicates(found) == uniqueItems(found, {})

\* lines 388-405
buildTableV1(text, found) ==
    IF Len(found) = 0
    THEN [kind |-> "fallback", rows |-> <<>>, text |-> text]
    ELSE [kind |-> "table", rows |-> found, text |-> <<>>]

\* lines 230-406
formatRecommendationsV1(text) ==
    LET first == patternPass(text)
        second == IF Len(first) = 0 THEN first \o simplePass(text) ELSE first
    IN buildTableV1(text, removeDuplicates(second))

(***************************************************************************)
(* The provider texts of the model: up to MaxTokens tokens, a token being  *)
(* one code unit of the alphabet or one well-formed item.                  *)
(***************************************************************************)
ItemTokens ==
    { <<"M", "-", "1", " ", "m">>, <<"m", " ", "-", " ", "2", " ", "a">> }
\* an item that ends its line
LineTokens == {t \o <<"\n">> : t \in ItemTokens}
\* the lines "glyph name - integer unit", the glyph being a plant emoji
\* (a surrogate pair), with the name and the quantity text they state
MarkedItems ==
    { [line |-> <<"&", "&", " ", "M", " ", "-", " ", "1", " ", "m">>,
       name |-> <<"M">>, quantity |-> <<"1", " ", "m">>],
      [line |-> <<"&", "&", " ", "a", " ", "-", " ", "2", " ", "a">>,
       name |-> <<"a">>, quantity |-> <<"2", " ", "a">>] }
MarkedTokens == {m.line : m \in MarkedItems}
\* an item that lacks its number; a name followed by a number without a
\* separator; an item whose name is only a glyph
PartTokens ==
    { <<"M", "-", " ", "m">>, <<"M", "m", "a", " ", "1">>,
      <<"&", " ", "-", "1", " ", "m">> }
SingleTokens == {<<c>> : c \in {"M", " ", "\n", "~", "@", "?"}}
Tokens == SingleTokens \cup ItemTokens \cup LineTokens \cup MarkedTokens \cup PartTokens

Inputs == {Flatten(ts) : ts \in UNION {[1..k -> Tokens] : k \in 0..MaxTokens}}

(***************************************************************************)
(* The page of part_002: the form, the prediction and the recommendation   *)
(* fetch.  Numbers with decimals are kept in thousandths.                  *)
(***************************************************************************)
\* lines 24-27, in thousandths
FORMULA_CONSTANT == 81610062
SEAWALL_COEFFICIENT == -54458
TYPHOON_COEFFICIENT == 2665351
FLOOD_COEFFICIENT == 2048205

NaN == [nan |-> TRUE, n |-> 0]
Number(n) == [nan |-> FALSE, n |-> n]

DigitValue == [c \in {"0", "1", "2", "3", "4", "5", "6", "7", "8", "9"} |->
                  CASE c = "0" -> 0 [] c = "1" -> 1 [] c = "2" -> 2 [] c = "3" -> 3
                    [] c = "4" -> 4 [] c = "5" -> 5 [] c = "6" -> 6 [] c = "7" -> 7
                    [] c = "8" -> 8 [] c = "9" -> 9]

RECURSIVE ParseDigits(_, _, _)
\* the value of the longest run of digits of s from position i on, read
\* after the digits of value acc; -1 where there is no digit
ParseDigits(s, i, acc) ==
    IF i <= Len(s) /\ s[i] \in DOMAIN DigitValue
    THEN ParseDigits(s, i + 1, (IF acc < 0 THEN 0 ELSE acc) * 10 + DigitValue[s[i]])
    ELSE acc

\* parseFloat (lines 85, 104-106, 1270-1272), on texts without a fraction
\* or an exponent: leading white space, a sign, the longest run of digits
parseFloat(value) ==
    LET s == TrimStart(value)
        signed == s # <<>> /\ s[1] \in {"-", "+"}
        magnitude == ParseDigits(s, IF signed THEN 2 ELSE 1, -1)
    IN IF magnitude < 0 THEN NaN
       ELSE Number(IF signed /\ s[1] = "-" THEN -magnitude ELSE magnitude)

\* line 86 without its test num >= 0
isValidNumber_AnySign(value) == ~parseFloat(value).nan

\* lines 84-87
isValidNumber(value) ==
    LET num == parseFloat(value) IN ~num.nan /\ num.n >= 0

\* lines 102-116, the arguments being numbers; the result in thousandths
calculateSoilLoss(seawallLength, typhoons, floods) ==
    LET S == IF seawallLength.nan THEN 0 ELSE seawallLength.n
        T == IF typhoons.nan THEN 0 ELSE typhoons.n
        F == IF floods.nan THEN 0 ELSE floods.n
        soilLoss == FORMULA_CONSTANT + SEAWALL_COEFFICIENT * S
                    + TYPHOON_COEFFICIENT * T + FLOOD_COEFFICIENT * F
    IN IF soilLoss > 0 THEN soilLoss ELSE 0

\* lines 63-68: two decimals, a number in thousandths given in hundredths
formatNumber(num) == (num + 5) \div 10

\* lines 121-131
getSoilTypeDisplayName(soilType) ==
    CASE soilType = "sandy" -> "Sandy Soil"
      [] soilType = "clay" -> "Clay Soil"
      [] OTHER -> soilType

\* lines 1205-1215
validateForm(f) ==
    /\ isValidNumber(f.seawallLength)
    /\ isValidNumber(f.typhoons)
    /\ isValidNumber(f.floods)
    /\ f.soilType # ""

\* the values of a JSON document: absent, a string, a number, an object
Undefined == [t |-> "undefined", v |-> <<>>]
Str(s) == [t |-> "string", v |-> s]
NonZeroNumber == [t |-> "number", v |-> <<>>]
JsTrue == [t |-> "true", v |-> <<>>]
JsFalse == [t |-> "false", v |-> <<>>]
\* ToBoolean, as the conditions of lines 210, 225, 521, 527, 533 apply it
Truthy(x) ==
    CASE x.t \in {"undefined", "false"} -> FALSE
      [] x.t = "string" -> x.v # <<>>
      [] OTHER -> TRUE

\* line 555: /^[...\-\*]\s+(.+)$/
bulletClass == {"~", "-", "*"}
bulletPattern ==
    << Bol, One(bulletClass), Rep(WhiteSpace, 1, -1, TRUE),
       Open(1), Rep(Dot, 1, -1, TRUE), Close(1), Eol >>

\* line 558: the least length of a bullet's content, exclusive
minContentLength == 5

\* lines 552-562: the element of one line, none for a line that is dropped
recommendationItemText(line) ==
    LET trimmed == Trim(line)
        match == Exec(trimmed, bulletPattern, 1)
        content == Trim(Group(trimmed, match, 1))
    IN IF match.ok /\ match.start = 1 /\ content # <<>> /\ Len(content) > minContentLength
       THEN <<content>> ELSE <<>>

\* lines 543-565 (part_002): the elements of the returned HTML
formatRecommendationText(text) ==
    IF text = <<>> THEN <<>>
    ELSE LET kept == SelectSeq(Split(text, "\n"), LAMBDA line : Trim(line) # <<>>)
         IN Flatten([i \in 1..Len(kept) |-> recommendationItemText(kept[i])])

(***************************************************************************)
(* formatRecommendationText of script.js (lines 451-521).                  *)
(***************************************************************************)
blankRun == <<Rep(WhiteSpace, 1, -1, TRUE)>>
sectionWord == Word(<<"s","e","c","t","i","o","n">>)

\* line 455: /SECTION\s*[123][:\-]?\s*/gi
sectionPattern ==
    sectionWord \o << Rep(WhiteSpace, 0, -1, TRUE), One({"1", "2", "3"}),
                      Rep({":", "-"}, 0, 1, TRUE), Rep(WhiteSpace, 0, -1, TRUE) >>
\* line 473: /^SECTION\s*[123]/i
sectionHeaderPattern ==
    <<Bol>> \o sectionWord \o << Rep(WhiteSpace, 0, -1, TRUE), One({"1", "2", "3"}) >>

\* lines 458-465
skipPatterns ==
    << Word(<<"t","h","a","t","'","s">>) \o blankRun \o Word(<<"a">>) \o blankRun,
       Word(<<"i">>) \o blankRun \o Word(<<"s","h","o","u","l","d">>) \o blankRun,
       Word(<<"i">>) \o blankRun \o Word(<<"n","e","e","d">>) \o blankRun
           \o Word(<<"t","o">>) \o blankRun,
       Word(<<"m","o","v","i","n","g">>) \o blankRun \o Word(<<"o","n">>) \o blankRun
           \o Word(<<"t","o">>),
       Word(<<"f","i","n","a","l","l","y">>),
       Word(<<"c","o","m","e","s">>) \o blankRun \o Word(<<"t","o">>) \o blankRun
           \o Word(<<"m","i","n","d">>) >>

\* lines 476, 510: skipPatterns.some(pattern => pattern.test(trimmed))
isExplanation(trimmed) ==
    \E p \in 1..Len(skipPatterns) : Test(trimmed, skipPatterns[p])

\* lines 479, 509: the length a line must not exceed (or reach, line 509)
maxLineLength == 200
\* line 509: the length a paragraph must exceed
minParagraphLength == 10
\* line 501: the length the content of a bullet must exceed
minBulletLength == 5

\* line 492: /^[-*...]\s/ with the bullet glyph U+2022
bulletMarkPattern == << Bol, One({"-", "U+2022", "*"}), One(WhiteSpace) >>
\* line 492: /^\d+[\.\)]\s/
numberMarkPattern ==
    << Bol, Rep(Digits \cup {"3"}, 1, -1, TRUE), One({".", ")"}), One(WhiteSpace) >>
\* line 495: /^[-*...\d\.\)]\s+/
markerPattern ==
    << Bol, One({"-", "U+2022", "*", ".", ")", "3"} \cup Digits),
       Rep(WhiteSpace, 1, -1, TRUE) >>
\* line 497: /\*\*([^*]+)\*\*/g
boldPattern ==
    << One({"*"}), One({"*"}), Open(1),
       Rep((AnyChar \cup {"e", "U+0301", "U+00E9", "U+200D", "U+FE0F"}) \ {"*"}, 1, -1, TRUE),
       Close(1), One({"*"}), One({"*"}) >>

RECURSIVE replaceWithGroup(_, _, _)
\* s.replace(regex, '$1') with the g flag, from position from on
replaceWithGroup(s, nodes, from) ==
    LET r == Exec(s, nodes, from) IN
    IF ~r.ok THEN SubSeq(s, from, Len(s))
    ELSE SubSeq(s, from, r.start - 1) \o Group(s, r, 1) \o replaceWithGroup(s, nodes, r.end)

RECURSIVE collapseWhiteSpace(_)
\* line 499: s.replace(/\s+/g, ' ')
collapseWhiteSpace(s) ==
    IF s = <<>> THEN <<>>
    ELSE IF s[1] \in WhiteSpace
    THEN IF Len(s) > 1 /\ s[2] \in WhiteSpace THEN collapseWhiteSpace(Tail(s))
         ELSE <<" ">> \o collapseWhiteSpace(Tail(s))
    ELSE <<s[1]>> \o collapseWhiteSpace(Tail(s))

\* lines 468-484: the filter of the lines; its four tests have no effect
\* but their result, the one of the length (line 479) is evaluated first
keptLine(line) ==
    LET trimmed == Trim(line) IN
    /\ trimmed # <<>>
    /\ Len(trimmed) <= maxLineLength
    /\ ~Test(trimmed, sectionHeaderPattern)
    /\ ~isExplanation(trimmed)

\* line 492
isBulletLine(line) ==
    Test(Trim(line), bulletMarkPattern) \/ Test(Trim(line), numberMarkPattern)

\* lines 492-504: the element of one line in the bullet pass
bulletItemV1(line) ==
    LET content == collapseWhiteSpace(replaceWithGroup(
                       Trim(RemoveFirstMatch(Trim(line), markerPattern)), boldPattern, 1))
    IN IF isBulletLine(line) /\ content # <<>> /\ Len(content) > minBulletLength
       THEN <<content>> ELSE <<>>

\* lines 509-514: the element of one line in the paragraph pass
paragraphItem(line) ==
    LET trimmed == Trim(line) IN
    IF trimmed # <<>> /\ Len(trimmed) < maxLineLength
       /\ Len(trimmed) > minParagraphLength /\ ~isExplanation(trimmed)
    THEN <<trimmed>> ELSE <<>>

\* lines 451-521 (script.js): the elements of the returned HTML
formatRecommendationTextV1(text) ==
    IF text = <<>> THEN <<>>
    ELSE LET cleanedText == Trim(RemoveAllMatches(text, sectionPattern, 1))
             kept == SelectSeq(Split(cleanedText, "\n"), keptLine)
             hasBullets == \E i \in 1..Len(kept) : isBulletLine(kept[i])
         IN IF hasBullets
            THEN Flatten([i \in 1..Len(kept) |-> bulletItemV1(kept[i])])
            ELSE Flatten([i \in 1..Len(kept) |-> paragraphItem(kept[i])])

\* what recommendationsText holds
EmptyContent == [kind |-> "empty", rows |-> <<>>, text |-> <<>>, message |-> "", req |-> 0]
\* lines 216-217: the HTML of formatRecommendations, set for request req
Rendered(html, req) ==
    [kind |-> html.kind, rows |-> html.rows, text |-> html.text, message |-> "", req |-> req]
\* lines 235-241
ErrorBlock(message, req) ==
    [kind |-> "error", rows |-> <<>>, text |-> <<>>, message |-> message, req |-> req]

\* the page with every result hidden and empty (lines 1162-1195)
HiddenPage ==
    [ resultsSection |-> FALSE, exportButtonsWrapper |-> FALSE,
      recommendationsSection |-> FALSE, recommendationsLoading |-> FALSE,
      recommendationsTextShown |-> FALSE, recommendationsFooter |-> FALSE,
      detailedRecommendationsSection |-> FALSE,
      soilLossRecommendations |-> FALSE, soilTypeRecommendations |-> FALSE,
      vegetationRecommendations |-> FALSE,
      soilLossValue |-> -1, soilTypeValue |-> "",
      recommendationsText |-> EmptyContent,
      soilLossContent |-> <<>>, soilTypeContent |-> <<>>, vegetationContent |-> <<>>,
      currentSoilLoss |-> -1, currentSoilType |-> "" ]

EmptyForm == [seawallLength |-> <<>>, typhoons |-> <<>>, floods |-> <<>>, soilType |-> ""]

\* lines 188-195 and 1282-1289
hideDetailed(d) ==
    [d EXCEPT !.detailedRecommendationsSection = FALSE,
              !.soilLossRecommendations = FALSE,
              !.soilTypeRecommendations = FALSE,
              !.vegetationRecommendations = FALSE,
              !.soilLossContent = <<>>,
              !.soilTypeContent = <<>>,
              !.vegetationContent = <<>>]

\* lines 176-195: fetchRecommendations up to its first await
showLoading(d) ==
    hideDetailed([d EXCEPT !.recommendationsSection = TRUE,
                           !.recommendationsLoading = TRUE,
                           !.recommendationsTextShown = FALSE,
                           !.recommendationsText = EmptyContent])

\* lines 142-159: displayResults up to the call of fetchRecommendations
showResults(d, soilLoss, soilType) ==
    [d EXCEPT !.soilLossValue = formatNumber(soilLoss),
              !.soilTypeValue = getSoilTypeDisplayName(soilType),
              !.resultsSection = TRUE,
              !.exportButtonsWrapper = TRUE,
              !.currentSoilLoss = soilLoss,
              !.currentSoilType = getSoilTypeDisplayName(soilType)]

\* lines 1162-1195
resetPage(d) ==
    [hideDetailed(d) EXCEPT !.resultsSection = FALSE,
                            !.recommendationsSection = FALSE,
                            !.recommendationsText = EmptyContent,
                            !.exportButtonsWrapper = FALSE,
                            !.recommendationsFooter = FALSE,
                            !.currentSoilLoss = -1,
                            !.currentSoilType = ""]

\* lines 521-536: one of the three sections; calling trim on a value that
\* is not a string throws
detailedSection(state, value, content, section) ==
    IF state.threw \/ ~Truthy(value) THEN state
    ELSE IF value.t # "string" THEN [state EXCEPT !.threw = TRUE]
    ELSE IF Trim(value.v) = <<>> THEN state
    ELSE [state EXCEPT !.dom[content] = formatRecommendationText(value.v),
                       !.dom[section] = TRUE]

\* lines 507-536
displayDetailedRecommendations(d, detailed) ==
    LET shown == [dom |-> [d EXCEPT !.detailedRecommendationsSection = TRUE],
                  threw |-> FALSE]
        one == detailedSection(shown, detailed.soil_loss,
                               "soilLossContent", "soilLossRecommendations")
        two == detailedSection(one, detailed.soil_type,
                               "soilTypeContent", "soilTypeRecommendations")
    IN detailedSection(two, detailed.vegetation,
                       "vegetationContent", "vegetationRecommendations")

\* the catch block without line 234: the loading indicator stays
showError_KeepLoading(d, message, req) ==
    [d EXCEPT !.recommendationsTextShown = TRUE,
              !.recommendationsText = ErrorBlock(message, req)]

\* lines 232-241: the catch block
showError(d, message, req) ==
    [d EXCEPT !.recommendationsLoading = FALSE,
              !.recommendationsTextShown = TRUE,
              !.recommendationsText = ErrorBlock(message, req)]

\* line 210
hasRecommendations(data) == Truthy(data.success) /\ Truthy(data.recommendations)

\* the recommendations texts of the provider: a text with one item, a text
\* with none, the empty text
ProviderTexts == { <<"M", "-", "1", " ", "m">>, <<"M">>, <<>> }

\* line 216: formatRecommendations(data.recommendations, soilLoss, soilType)
formattedText == [text \in ProviderTexts |-> formatRecommendations(text)]

\* the success branch without line 212: the loading indicator stays
onResponse_KeepLoading(d, reply, req) ==
    IF reply.type = "reject" THEN showError(d, "Failed to fetch", req)
    ELSE IF reply.type = "status" THEN showError(d, "HTTP error! status", req)
    ELSE IF reply.type = "invalid" THEN showError(d, "SyntaxError", req)
    ELSE IF hasRecommendations(reply)
    THEN LET shown == [d EXCEPT
                 !.recommendationsTextShown = TRUE,
                 !.recommendationsText =
                     Rendered(formattedText[reply.recommendations.v], req),
                 !.recommendationsFooter = TRUE]
         IN IF Truthy(reply.detailed_recommendations)
            THEN LET detailed == displayDetailedRecommendations(
                                     shown, reply.detailed_recommendations)
                 IN IF detailed.threw
                    THEN showError(detailed.dom, "TypeError", req)
                    ELSE detailed.dom
            ELSE shown
    ELSE showError(d, "Failed to get recommendations", req)

\* lines 197-242: fetchRecommendations from the settling of its fetch on,
\* for request req
onResponse(d, reply, req) ==
    IF reply.type = "reject" THEN showError(d, "Failed to fetch", req)
    ELSE IF reply.type = "status" THEN showError(d, "HTTP error! status", req)
    ELSE IF reply.type = "invalid" THEN showError(d, "SyntaxError", req)
    ELSE IF hasRecommendations(reply)
    THEN LET shown == [d EXCEPT
                 !.recommendationsLoading = FALSE,
                 !.recommendationsTextShown = TRUE,
                 !.recommendationsText =
                     Rendered(formattedText[reply.recommendations.v], req),
                 !.recommendationsFooter = TRUE]
         IN IF Truthy(reply.detailed_recommendations)
            THEN LET detailed == displayDetailedRecommendations(
                                     shown, reply.detailed_recommendations)
                 IN IF detailed.threw
                    THEN showError(detailed.dom, "TypeError", req)
                    ELSE detailed.dom
            ELSE shown
    ELSE showError(d, "Failed to get recommendations", req)

(***************************************************************************)
(* The PDF download of part_002 when the library may be missing.           *)
(***************************************************************************)
\* what window.jsPDF and window.jspdf can be: not defined, the namespace
\* object with a jsPDF member, the constructor itself, an object with a
\* default export, another object
GlobalShapes == {"undefined", "namespace", "function", "default", "object"}
Windows == [jsPDF : GlobalShapes, jspdf : GlobalShapes]
NoLibrary == [jsPDF |-> "undefined", jspdf |-> "undefined"]

\* part_002 lines 632-659: the constructor found, "null" if none
getJsPDFLibrary(window) ==
    IF window.jsPDF = "namespace" THEN "window.jsPDF.jsPDF"
    ELSE IF window.jsPDF = "function" THEN "window.jsPDF"
    ELSE IF window.jsPDF = "default" THEN "window.jsPDF.default"
    ELSE IF window.jspdf = "namespace" THEN "window.jspdf.jsPDF"
    ELSE IF window.jspdf = "function" THEN "window.jspdf"
    ELSE "null"

\* the page before any download: the library script has not run
NoDownload == [window |-> NoLibrary, calls |-> 0, timers |-> 0, alerts |-> 0,
               saved |-> 0, errors |-> 0]

\* part_002 lines 691-1113: downloadPDF; without a library it sets the
\* timer of line 768 and returns, with one it builds and saves the
\* document (line 1108) or, when that throws, alerts the error (line 1111)
downloadPDF(p, throws) ==
    IF getJsPDFLibrary(p.window) = "null" THEN [p EXCEPT !.timers = @ + 1]
    ELSE IF throws THEN [p EXCEPT !.errors = @ + 1]
    ELSE [p EXCEPT !.saved = @ + 1]

\* the callback with the test of line 770 left out: it always retries
recheck_AlwaysRetry(p, throws) == downloadPDF(p, throws)

\* part_002 lines 768-777: the callback of the timer
recheck(p, throws) ==
    IF getJsPDFLibrary(p.window) = "null" THEN [p EXCEPT !.alerts = @ + 1]
    ELSE downloadPDF(p, throws)

(***************************************************************************)
(* What the user types and what the provider answers.                      *)
(***************************************************************************)
NumberFields == {"seawallLength", "typhoons", "floods"}
\* nothing, a count, and for the length a negative number too
FieldValues ==
    [field \in NumberFields |->
        IF field = "seawallLength" THEN { <<>>, <<"-", "1">>, <<"2">> }
        ELSE { <<>>, <<"2">> }]
SoilTypes == {"", "sandy"}

\* a bullet, a bullet whose content is too short, a blank text
BulletText == <<"-", " ", "M", "a", "m", "a", "m", "a">>
ShortBulletText == <<"*", " ", "M">>
BlankText == <<" ">>

NoDetailed ==
    [t |-> "undefined", soil_loss |-> Undefined, soil_type |-> Undefined,
     vegetation |-> Undefined]
Detailed(soil_loss, soil_type, vegetation) ==
    [t |-> "object", soil_loss |-> soil_loss, soil_type |-> soil_type,
     vegetation |-> vegetation]
DetailedPayloads ==
    { NoDetailed,
      Detailed(Str(BulletText), Str(BulletText), Str(BulletText)),
      Detailed(Str(BulletText), Undefined, Str(ShortBulletText)),
      Detailed(Str(BlankText), NonZeroNumber, Str(BulletText)) }

\* a fetch that settled without a document
Settled(type) ==
    [type |-> type, success |-> JsFalse, recommendations |-> Undefined,
     detailed_recommendations |-> NoDetailed]
\* the document { success, recommendations, detailed_recommendations }
Json(success, text, detailed) ==
    [type |-> "json", success |-> success, recommendations |-> text,
     detailed_recommendations |-> detailed]

\* the fetch rejects; the status is not ok; the body is not JSON; a document
Replies ==
    {Settled("reject"), Settled("status"), Settled("invalid")}
    \cup {Json(JsFalse, Undefined, NoDetailed)}
    \cup {Json(JsTrue, Undefined, NoDetailed)}
    \cup {Json(JsTrue, Str(text), detailed) :
             text \in ProviderTexts, detailed \in DetailedPayloads}

NoReply == [req |-> 0, reply |-> Settled("none")]

(***************************************************************************)
(* The PDF export of part_002.  Further code units of its texts: "e", the  *)
(* combining acute accent U+0301, the letter U+00E9 the two compose to,    *)
(* the zero width joiner U+200D, the variation selector U+FE0F, the tab.   *)
(***************************************************************************)
\* String.prototype.normalize('NFC'): the base letters with a composite
composites == [c \in {"e"} |-> "U+00E9"]
combiningMarks == {"U+0301"}

RECURSIVE normalizeNFC(_)
\* line 671: a mark composes with the base letter right before it; any other
\* code unit between the two blocks the composition
normalizeNFC(s) ==
    IF Len(s) < 2 THEN s
    ELSE IF s[1] \in DOMAIN composites /\ s[2] \in combiningMarks
    THEN <<composites[s[1]]>> \o normalizeNFC(SubSeq(s, 3, Len(s)))
    ELSE <<s[1]>> \o normalizeNFC(Tail(s))

\* line 673: /[\uD800-\uDFFF]/g
surrogates == {"&"}
\* line 675: /[\uFE0F\u200B-\u200D\u2060]/g
zeroWidth == {"U+FE0F", "U+200D"}
\* line 677: /[...]/g, the characters mapped to a hyphen, as stored
pdfDashVariants == {"~"}
\* line 679: /[ \t\f\v]+/g
blanks == {" ", "\t"}

RECURSIVE collapseBlanks(_)
\* line 679: every run of blanks becomes one space
collapseBlanks(s) ==
    IF s = <<>> THEN <<>>
    ELSE IF s[1] \in blanks
    THEN IF Len(s) > 1 /\ s[2] \in blanks THEN collapseBlanks(Tail(s))
         ELSE <<" ">> \o collapseBlanks(Tail(s))
    ELSE <<s[1]>> \o collapseBlanks(Tail(s))

\* line 681: .split('\n').map(l => l.trim()).join('\n')
trimLines(s) ==
    LET parts == Split(s, "\n")
    IN Join([i \in 1..Len(parts) |-> Trim(parts[i])], <<"\n">>)

\* lines 667-686
sanitizePdfText(text) ==
    IF text = <<>> THEN <<>>
    ELSE Trim(trimLines(collapseBlanks(ReplaceClass(
             RemoveClass(RemoveClass(normalizeNFC(text), surrogates), zeroWidth),
             pdfDashVariants, "-"))))

\* the texts given to sanitizePdfText: up to MaxUnits code units
PdfUnits == {"e", "U+0301", "U+200D", "U+FE0F", "&", "=", "~", "@", " ", "\t", "\n"}
PdfTexts == UNION {[1..k -> PdfUnits] : k \in 0..MaxUnits}

\* line 704: the pushed object
PdfItem(name, quantity) == [name |-> name, quantity |-> quantity]

\* lines 700-706 pushing every row
pdfRowItem_KeepEmpty(row) ==
    << PdfItem(sanitizePdfText(row.name), sanitizePdfText(row.quantity)) >>

\* lines 699-706: what the loop pushes for one row of the table; the text
\* of the name and quantity elements is the name and quantity of the item
\* (lines 487, 490)
pdfRowItem(row) ==
    LET name == sanitizePdfText(row.name)
        quantity == sanitizePdfText(row.quantity)
    IN IF name # <<>> /\ quantity # <<>> THEN <<PdfItem(name, quantity)>> ELSE <<>>

\* line 714: /^[...\-\*\d\.\)]\s+/
pdfMarkerPattern ==
    << Bol, One({"~", "-", "*", ".", ")"} \cup Digits), Rep(WhiteSpace, 1, -1, TRUE) >>
\* line 715: /^(.+?)\s*-\s*(.+)$/
pdfLinePattern ==
    << Bol, Open(1), Rep(Dot, 1, -1, FALSE), Close(1), Rep(WhiteSpace, 0, -1, TRUE),
       One({"-"}), Rep(WhiteSpace, 0, -1, TRUE),
       Open(2), Rep(Dot, 1, -1, TRUE), Close(2), Eol >>

\* lines 713-719: what the loop pushes for one line of the plain text
pdfLineItem(line) ==
    LET clean == RemoveFirstMatch(line, pdfMarkerPattern)
        m == Exec(clean, pdfLinePattern, 1)
    IN IF m.ok THEN <<PdfItem(Trim(Group(clean, m, 1)), Trim(Group(clean, m, 2)))>>
       ELSE <<>>

\* lines 571-613: getRecommendationsText of a page without a table and
\* with empty detailed sections: the trimmed text of recommendationsText
plainRecommendationsText(content) == Trim(content.text)

\* lines 693-722: content is what recommendationsText holds
getRecommendationItemsForPdf(content) ==
    IF content.kind = "table"
    THEN Flatten([i \in 1..Len(content.rows) |-> pdfRowItem(content.rows[i])])
    ELSE LET text == sanitizePdfText(plainRecommendationsText(content))
             parts == IF text = <<>> THEN <<>> ELSE Split(text, "\n")
             textLines == SelectSeq([i \in 1..Len(parts) |-> Trim(parts[i])],
                                    LAMBDA l : l # <<>>)
         IN Flatten([i \in 1..Len(textLines) |-> pdfLineItem(textLines[i])])

\* lines 740-741: the bullet of one item node, none if too short
pdfBullet(content) ==
    LET txt == Trim(sanitizePdfText(content)) IN
    IF txt # <<>> /\ Len(txt) > 1 THEN <<txt>> ELSE <<>>

\* lines 732-755: the bullets of one detailed section, content being the
\* item nodes formatRecommendationText wrote into its element.  An element
\* without item nodes holds no text at all (lines 188-195, 521-533), and
\* the splits of lines 745-754 find nothing in the empty text.
pdfSectionBullets(content) ==
    IF Len(content) > 0
    THEN Flatten([i \in 1..Len(content) |-> pdfBullet(content[i])])
    ELSE <<>>

(***************************************************************************)
(* One call of formatRecommendations, pass by pass.                        *)
(***************************************************************************)
Init ==
    /\ build \in {"part_002", "script.js"}
    /\ recommendations \in Inputs
    /\ pc = IF build = "part_002" THEN "multiline" ELSE "patterns"
    /\ items = <<>>
    /\ ran = <<>>
    /\ output = NoOutput
    /\ form = EmptyForm
    /\ alerted = FALSE
    /\ dom = HiddenPage
    /\ pending = {}
    /\ submitted = 0
    /\ lastReply = NoReply
    /\ pdf = NoDownload
    /\ call = "none"
    /\ arg = <<>>
    /\ step = "idle"
    /\ returned = <<>>

\* part_002 lines 324-356
TryMultiline ==
    /\ pc = "multiline"
    /\ items' = items \o multilineStrategy(recommendations)
    /\ ran' = IF Len(lines(recommendations)) > 1 THEN Append(ran, "multiline") ELSE ran
    /\ pc' = "single"
    /\ UNCHANGED <<build, recommendations, output>>
    /\ UNCHANGED uiVars
    /\ UNCHANGED fnVars

\* part_002 lines 358-389
TrySingleLine ==
    /\ pc = "single"
    /\ IF stillEmpty(items)
       THEN /\ items' = items \o singleLineStrategy(recommendations)
            /\ ran' = Append(ran, "single")
       ELSE UNCHANGED <<items, ran>>
    /\ pc' = "glyph"
    /\ UNCHANGED <<build, recommendations, output>>
    /\ UNCHANGED uiVars
    /\ UNCHANGED fnVars

\* part_002 lines 391-431
TryGlyphSplit ==
    /\ pc = "glyph"
    /\ IF stillEmpty(items)
       THEN /\ items' = items \o glyphSplitStrategy(recommendations)
            /\ ran' = Append(ran, "glyph")
       ELSE UNCHANGED <<items, ran>>
    /\ pc' = "plain"
    /\ UNCHANGED <<build, recommendations, output>>
    /\ UNCHANGED uiVars
    /\ UNCHANGED fnVars

\* part_002 lines 433-456
TryPlain ==
    /\ pc = "plain"
    /\ IF stillEmpty(items)
       THEN /\ items' = items \o plainStrategy(recommendations)
            /\ ran' = Append(ran, "plain")
       ELSE UNCHANGED <<items, ran>>
    /\ pc' = "build"
    /\ UNCHANGED <<build, recommendations, output>>
    /\ UNCHANGED uiVars
    /\ UNCHANGED fnVars

\* part_002 lines 461-500
BuildTable ==
    /\ pc = "build"
    /\ build = "part_002"
    /\ output' = buildTable(recommendations, items)
    /\ pc' = "done"
    /\ UNCHANGED <<build, recommendations, items, ran>>
    /\ UNCHANGED uiVars
    /\ UNCHANGED fnVars

\* script.js lines 244-332
PatternPass ==
    /\ pc = "patterns"
    /\ items' = items \o patternPass(recommendations)
    /\ ran' = Append(ran, "patterns")
    /\ pc' = "simple"
    /\ UNCHANGED <<build, recommendations, output>>
    /\ UNCHANGED uiVars
    /\ UNCHANGED fnVars

\* script.js lines 334-373
SimplePass ==
    /\ pc = "simple"
    /\ IF Len(items) = 0
       THEN /\ items' = items \o simplePass(recommendations)
            /\ ran' = Append(ran, "simple")
       ELSE UNCHANGED <<items, ran>>
    /\ pc' = "dedup"
    /\ UNCHANGED <<build, recommendations, output>>
    /\ UNCHANGED uiVars
    /\ UNCHANGED fnVars

\* script.js lines 375-386
RemoveDuplicates ==
    /\ pc = "dedup"
    /\ items' = removeDuplicates(items)
    /\ pc' = "build"
    /\ UNCHANGED <<build, recommendations, ran, output>>
    /\ UNCHANGED uiVars
    /\ UNCHANGED fnVars

\* script.js lines 388-405
BuildTableV1 ==
    /\ pc = "build"
    /\ build = "script.js"
    /\ output' = buildTableV1(recommendations, items)
    /\ pc' = "done"
    /\ UNCHANGED <<build, recommendations, items, ran>>
    /\ UNCHANGED uiVars
    /\ UNCHANGED fnVars

Next ==
    \/ TryMultiline
    \/ TrySingleLine
    \/ TryGlyphSplit
    \/ TryPlain
    \/ BuildTable
    \/ PatternPass
    \/ SimplePass
    \/ RemoveDuplicates
    \/ BuildTableV1

Spec == Init /\ [][Next]_vars

(***************************************************************************)
(* The page of part_002, handler by handler.  A handler runs to its end    *)
(* or to its first await; a fetch settles at any later time.               *)
(***************************************************************************)
InitUI ==
    /\ build = "part_002"
    /\ recommendations = <<>>
    /\ pc = "idle"
    /\ items = <<>>
    /\ ran = <<>>
    /\ output = NoOutput
    /\ form = EmptyForm
    /\ alerted = FALSE
    /\ dom = HiddenPage
    /\ pending = {}
    /\ submitted = 0
    /\ lastReply = NoReply
    /\ pdf = NoDownload
    /\ call = "none"
    /\ arg = <<>>
    /\ step = "idle"
    /\ returned = <<>>

\* the user sets one of the number inputs
EditField ==
    /\ \E field \in NumberFields : \E value \in FieldValues[field] :
           /\ form[field] # value
           /\ form' = [form EXCEPT ![field] = value]
    /\ UNCHANGED <<alerted, dom, pending, submitted, lastReply>>
    /\ UNCHANGED pdf
    /\ UNCHANGED pipeVars
    /\ UNCHANGED fnVars

\* the user picks an entry of the soil type select
SelectSoilType ==
    /\ \E soilType \in SoilTypes :
           /\ form.soilType # soilType
           /\ form' = [form EXCEPT !.soilType = soilType]
    /\ UNCHANGED <<alerted, dom, pending, submitted, lastReply>>
    /\ UNCHANGED pdf
    /\ UNCHANGED pipeVars
    /\ UNCHANGED fnVars

\* lines 1259-1298, with displayResults (lines 142-169) and
\* fetchRecommendations up to its await (lines 176-197)
handleFormSubmit ==
    /\ IF ~validateForm(form)
       THEN /\ alerted' = TRUE
            /\ UNCHANGED <<dom, pending, submitted>>
       ELSE /\ submitted < MaxRequests
            /\ submitted' = submitted + 1
            /\ pending' = pending \cup {submitted + 1}
            /\ dom' = showLoading(showResults(hideDetailed(dom),
                           calculateSoilLoss(parseFloat(form.seawallLength),
                                             parseFloat(form.typhoons),
                                             parseFloat(form.floods)),
                           form.soilType))
            /\ alerted' = FALSE
    /\ UNCHANGED <<form, lastReply>>
    /\ UNCHANGED pdf
    /\ UNCHANGED pipeVars
    /\ UNCHANGED fnVars

\* lines 197-242: the fetch of a request settles and the rest of
\* fetchRecommendations runs
ResponseArrives ==
    /\ \E req \in pending, reply \in Replies :
           /\ pending' = pending \ {req}
           /\ dom' = onResponse(dom, reply, req)
           /\ lastReply' = [req |-> req, reply |-> reply]
    /\ UNCHANGED <<form, alerted, submitted>>
    /\ UNCHANGED pdf
    /\ UNCHANGED pipeVars
    /\ UNCHANGED fnVars

\* lines 1162-1195
resetResults ==
    /\ dom' = resetPage(dom)
    /\ form' = EmptyForm
    /\ UNCHANGED <<alerted, pending, submitted, lastReply>>
    /\ UNCHANGED pdf
    /\ UNCHANGED pipeVars
    /\ UNCHANGED fnVars

NextUI ==
    \/ EditField
    \/ SelectSoilType
    \/ handleFormSubmit
    \/ ResponseArrives
    \/ resetResults

SpecUI == InitUI /\ [][NextUI]_vars

\* the page when every fetch that was issued settles: the promise of line
\* 197 is resolved or rejected and its continuation is run
FairSpecUI == SpecUI /\ WF_vars(ResponseArrives)

(***************************************************************************)
(* The page of the PDF download, handler by handler.                       *)
(***************************************************************************)
\* the page on which the download button can be pressed: a valid form was
\* submitted and the export buttons are displayed (line 155)
ValidForm == [seawallLength |-> <<"2">>, typhoons |-> <<"2">>, floods |-> <<"2">>,
              soilType |-> "sandy"]
InitPdf ==
    /\ build = "part_002"
    /\ recommendations = <<>>
    /\ pc = "idle"
    /\ items = <<>>
    /\ ran = <<>>
    /\ output = NoOutput
    /\ form = ValidForm
    /\ alerted = FALSE
    /\ dom = showLoading(showResults(hideDetailed(HiddenPage),
                 calculateSoilLoss(parseFloat(form.seawallLength), parseFloat(form.typhoons),
                                   parseFloat(form.floods)),
                 form.soilType))
    /\ pending = {1}
    /\ submitted = 1
    /\ lastReply = NoReply
    /\ pdf = NoDownload
    /\ call = "none"
    /\ arg = <<>>
    /\ step = "idle"
    /\ returned = <<>>

\* the library script finishes and defines its globals
LibraryLoads ==
    /\ pdf.window = NoLibrary
    /\ \E window \in Windows \ {NoLibrary} : pdf' = [pdf EXCEPT !.window = window]
    /\ UNCHANGED <<form, alerted, dom, pending, submitted, lastReply>>
    /\ UNCHANGED <<pipeVars, fnVars>>

\* line 1316: the click on the download button calls downloadPDF
ClickDownload ==
    /\ dom.exportButtonsWrapper
    /\ pdf.calls < MaxCalls
    /\ \E throws \in BOOLEAN :
           pdf' = downloadPDF([pdf EXCEPT !.calls = @ + 1], throws)
    /\ UNCHANGED <<form, alerted, dom, pending, submitted, lastReply>>
    /\ UNCHANGED <<pipeVars, fnVars>>

\* lines 768-777: a timer set by downloadPDF fires
RecheckFires ==
    /\ pdf.timers > 0
    /\ \E throws \in BOOLEAN :
           pdf' = recheck([pdf EXCEPT !.timers = @ - 1], throws)
    /\ UNCHANGED <<form, alerted, dom, pending, submitted, lastReply>>
    /\ UNCHANGED <<pipeVars, fnVars>>

NextPdf ==
    \/ LibraryLoads
    \/ ClickDownload
    \/ RecheckFires

SpecPdf == InitPdf /\ [][NextPdf]_vars

\* the page when every timer that was set fires (line 768: 500 ms)
FairSpecPdf == SpecPdf /\ WF_vars(RecheckFires)

(***************************************************************************)
(* The functions of part_002 that are applied on their own, call by call.  *)
(***************************************************************************)
\* the plant names given to getPlantEmoji: up to MaxWords words
NameWords ==
    { <<"B","a","m","b","o","o">>, <<"t","r","e","e">>, <<"p","i","n","e">>,
      <<"g","r","a","s","s">>, <<"w","o","o","d">>, <<"p","a","l","m">>,
      <<"c","o","n","s","t","r","u","c","t","o","r">>, <<" ">>, <<"R","i","c","e">> }
PlantNames == {Flatten(ws) : ws \in UNION {[1..k -> NameWords] : k \in 0..MaxWords}}

\* a bulleted line longer than every length limit of the bulletizers
LongBulletText == <<"-", " ">> \o [i \in 1..maxLineLength |-> "m"]
\* the advice blocks given to formatRecommendationText: up to MaxLines lines
AdviceLines == {BulletText, LongBulletText, ShortBulletText}
AdviceBlocks ==
    {Join(ls, <<"\n">>) : ls \in UNION {[1..k -> AdviceLines] : k \in 0..MaxLines}}

\* a line of prose with two sentences, lines with a numbered marker and a
\* line with the bullet glyph
ProseText ==
    <<"M","a","m","a","m","a","."," ","M","a","m","a","m","a",".">>
NumberedText == <<"1", ".", " ", "M", "a", "m", "a", "m", "a">>
ParenNumberedText == <<"2", ")", " ", "M", "a", "m", "a", "m", "a">>
GlyphBulletText == <<"U+2022", " ", "M", "a", "m", "a", "m", "a">>
MixedLines == {ProseText, BulletText, NumberedText, ParenNumberedText, GlyphBulletText}
\* the advice blocks of prose and of marked lines: up to MaxRows lines
MixedBlocks ==
    {Join(ls, <<"\n">>) : ls \in UNION {[1..k -> MixedLines] : k \in 1..MaxRows}}

\* the lines of the provider texts shown before an export: an item, an
\* item whose name is one code unit of a glyph, an item whose name holds
\* such a code unit and a letter, a line that is no item, a line with a
\* hyphen that is no item
PageLines ==
    { <<"M", "-", "1", " ", "m">>, <<"&", "-", "1", " ", "m">>,
      <<"&", "a", "-", "2", " ", "m">>, <<"M">>, <<"M", "-", "m">> }
\* the provider texts shown before an export: up to MaxRows lines
PageTexts ==
    {Join(ls, <<"\n">>) : ls \in UNION {[1..k -> PageLines] : k \in 0..MaxRows}}

\* the pieces of the texts whose single-line scan is followed: code units
\* and one item with a glyph before it
ScanPieces ==
    { <<"M">>, <<" ">>, <<"-">>, <<"1">>, <<"m">>, <<"~">>,
      <<"@", " ", "M", "-", "1", " ", "m">> }
\* the texts whose single-line scan is followed: up to MaxUnits pieces
ScanTexts == {Flatten(ps) : ps \in UNION {[1..k -> ScanPieces] : k \in 0..MaxUnits}}

\* line 366: what globalPattern.exec(normalized) returns for every text
\* and every lastIndex within it
globalPatternExecs ==
    [text \in ScanTexts |->
        [i \in 0..Len(normalized(text)) |-> execGlobalPattern(normalized(text), i)]]

\* the lines given to the first pass of script.js: up to MaxWords words,
\* then a data line "name - number unit" or nothing
LineWords ==
    { <<"*", " ">>, <<"M","a","y","b","e"," ">>, <<"M","a","m","a"," ">>,
      <<"a","d","d","i","t","i","o","n","a","l"," ">> }
DataText == <<"M","a","m","a"," ","-"," ","2"," ","m">>
NoisyLines ==
    { Flatten(ws) \o tail : ws \in UNION {[1..k -> LineWords] : k \in 0..MaxWords},
                            tail \in {DataText, <<>>} }

\* the names of the data lines given to the first pass: plain, with a
\* plant glyph, with one or two trailing descriptor words, with a descriptor
\* inside, and with a last word that ends in the letters of a descriptor
RawNames ==
    { <<"M","a","m","a">>,
      <<"&","M","a","m","a"," ","t","r","e","e">>,
      <<"M","a","m","a"," ","t","r","e","e","s"," ","r","e","c","o","m","m","e","n","d","e","d">>,
      <<"M","a"," ","p","l","a","n","t"," ","M","a","m","a">>,
      <<"M","a","p","l","a","n","t">> }
NameLines == { name \o <<" ", "-", " ", "2", " ", "m">> : name \in RawNames }

\* the items of the one-line texts given to the single-line strategy: with
\* or without a glyph before the name
ScanItems ==
    [marker : {<<>>, <<"@", " ">>}, name : {<<"M", "a">>}, number : {<<"1">>, <<"2">>},
     unit : {<<"m">>}]
\* the text of an item: 'glyph name - integer unit'
itemText(item) == item.marker \o item.name \o <<" ", "-", " ">> \o item.number \o <<" ">> \o item.unit
\* the rows of items of a one-line text: up to MaxRows items
ItemRows == UNION {[1..k -> ScanItems] : k \in 1..MaxRows}
\* the one-line text of a row of items, one after another
rowText(its) == Join([i \in 1..Len(its) |-> itemText(its[i])], <<" ">>)
OneLineTexts == {rowText(its) : its \in ItemRows}

\* the rewrites that have the function of a call
BuildsOf ==
    [globalPattern |-> {"part_002"},
     sanitizePdfText |-> {"part_002"},
     getPlantEmoji |-> {"part_002"},
     formatRecommendationText |-> {"part_002", "script.js"},
     getRecommendationItemsForPdf |-> {"part_002"}]

Calls ==
    [globalPattern |-> ScanTexts,
     sanitizePdfText |-> PdfTexts,
     getPlantEmoji |-> PlantNames \ {<<>>},
     formatRecommendationText |-> AdviceBlocks \cup MixedBlocks,
     getRecommendationItemsForPdf |-> PageTexts]

InitFn ==
    /\ recommendations = <<>>
    /\ pc = "idle"
    /\ items = <<>>
    /\ ran = <<>>
    /\ output = NoOutput
    /\ form = EmptyForm
    /\ alerted = FALSE
    /\ dom = HiddenPage
    /\ pending = {}
    /\ submitted = 0
    /\ lastReply = NoReply
    /\ pdf = NoDownload
    /\ call \in DOMAIN Calls
    /\ build \in BuildsOf[call]
    /\ arg \in Calls[call]
    /\ step = "call"
    /\ returned = <<>>

\* lines 667-686: sanitizePdfText on the text
Sanitize ==
    /\ call = "sanitizePdfText" /\ step = "call"
    /\ returned' = <<sanitizePdfText(arg)>>
    /\ step' = "again"
    /\ UNCHANGED <<call, arg>>
    /\ UNCHANGED <<pipeVars, uiVars>>

\* lines 667-686: sanitizePdfText on what it returned
SanitizeAgain ==
    /\ call = "sanitizePdfText" /\ step = "again"
    /\ returned' = Append(returned, sanitizePdfText(returned[1]))
    /\ step' = "done"
    /\ UNCHANGED <<call, arg>>
    /\ UNCHANGED <<pipeVars, uiVars>>

\* lines 251-300: getPlantEmoji on the name
Resolve ==
    /\ call = "getPlantEmoji" /\ step = "call"
    /\ returned' = <<getPlantEmoji(arg)>>
    /\ step' = "again"
    /\ UNCHANGED <<call, arg>>
    /\ UNCHANGED <<pipeVars, uiVars>>

\* lines 251-300: getPlantEmoji on the same name once more
ResolveAgain ==
    /\ call = "getPlantEmoji" /\ step = "again"
    /\ returned' = Append(returned, getPlantEmoji(arg))
    /\ step' = "done"
    /\ UNCHANGED <<call, arg>>
    /\ UNCHANGED <<pipeVars, uiVars>>

\* part_002 lines 543-565, script.js lines 451-521
Bulletize ==
    /\ call = "formatRecommendationText" /\ step = "call"
    /\ returned' = << IF build = "part_002" THEN formatRecommendationText(arg)
                      ELSE formatRecommendationTextV1(arg) >>
    /\ step' = "done"
    /\ UNCHANGED <<call, arg>>
    /\ UNCHANGED <<pipeVars, uiVars>>

\* part_002 lines 732-758: getDetailedSectionsForPdf on a section whose
\* element holds what formatRecommendationText returned; followed for the
\* blocks of mixed lines
CollectBullets ==
    /\ call = "formatRecommendationText" /\ step = "done" /\ build = "part_002"
    /\ arg \in MixedBlocks
    /\ returned' = Append(returned, pdfSectionBullets(returned[1]))
    /\ step' = "collected"
    /\ UNCHANGED <<call, arg>>
    /\ UNCHANGED <<pipeVars, uiVars>>

\* lines 216-217: recommendationsText receives the HTML of the provider text
ShowTable ==
    /\ call = "getRecommendationItemsForPdf" /\ step = "call"
    /\ returned' = <<formatRecommendations(arg)>>
    /\ step' = "shown"
    /\ UNCHANGED <<call, arg>>
    /\ UNCHANGED <<pipeVars, uiVars>>

\* lines 693-722: getRecommendationItemsForPdf on the page so filled
ExportItems ==
    /\ call = "getRecommendationItemsForPdf" /\ step = "shown"
    /\ returned' = Append(returned, getRecommendationItemsForPdf(returned[1]))
    /\ step' = "done"
    /\ UNCHANGED <<call, arg>>
    /\ UNCHANGED <<pipeVars, uiVars>>

\* lastIndex of globalPattern: 0 before the first exec, then what the
\* latest match left
lastIndex(ends) == IF ends = <<>> THEN 0 ELSE ends[Len(ends)]

\* line 366: one evaluation of the condition of the while loop; a match
\* sets lastIndex to the index after it and the body (lines 367-387) runs,
\* null ends the loop.  The loop is followed for as many iterations as the
\* text has code units.
ScanStep ==
    /\ call = "globalPattern" /\ step \in {"call", "scan"}
    /\ Len(returned) <= Len(normalized(arg))
    /\ LET match == globalPatternExecs[arg][lastIndex(returned)] IN
       IF match.ok
       THEN /\ returned' = Append(returned, match.end - 1)
            /\ step' = "scan"
       ELSE /\ step' = "done"
            /\ UNCHANGED returned
    /\ UNCHANGED <<call, arg>>
    /\ UNCHANGED <<pipeVars, uiVars>>

NextFn ==
    \/ ScanStep
    \/ ShowTable
    \/ ExportItems
    \/ Bulletize
    \/ CollectBullets
    \/ Sanitize
    \/ SanitizeAgain
    \/ Resolve
    \/ ResolveAgain

SpecFn == InitFn /\ [][NextFn]_vars

\* the loop of line 366 runs on once it has begun: nothing in it yields
FairSpecFn == SpecFn /\ WF_vars(ScanStep)

(***************************************************************************)
(* The extraction passes that are applied on their own, call by call: the  *)
(* first pass of script.js on a line and the single-line strategy of       *)
(* part_002 on a one-line text.                                            *)
(***************************************************************************)
\* the arguments of the calls that are followed
ParseCalls ==
    [patternPass |-> NoisyLines \cup NameLines,
     singleLineStrategy |-> OneLineTexts]

InitParse ==
    /\ recommendations = <<>>
    /\ pc = "idle"
    /\ items = <<>>
    /\ ran = <<>>
    /\ output = NoOutput
    /\ form = EmptyForm
    /\ alerted = FALSE
    /\ dom = HiddenPage
    /\ pending = {}
    /\ submitted = 0
    /\ lastReply = NoReply
    /\ pdf = NoDownload
    /\ call \in DOMAIN ParseCalls
    /\ build = (IF call = "patternPass" THEN "script.js" ELSE "part_002")
    /\ arg \in ParseCalls[call]
    /\ step = "call"
    /\ returned = <<>>

\* script.js lines 232-332: the first pass on the text
FirstPass ==
    /\ call = "patternPass" /\ step = "call"
    /\ returned' = <<patternPass(arg)>>
    /\ step' = "done"
    /\ UNCHANGED <<call, arg>>
    /\ UNCHANGED <<pipeVars, uiVars>>

\* part_002 lines 359-388: the single-line strategy on the text
ScanLine ==
    /\ call = "singleLineStrategy" /\ step = "call"
    /\ returned' = <<singleLineStrategy(arg)>>
    /\ step' = "done"
    /\ UNCHANGED <<call, arg>>
    /\ UNCHANGED <<pipeVars, uiVars>>

NextParse ==
    \/ FirstPass
    \/ ScanLine

SpecParse == InitParse /\ [][NextParse]_vars

(***************************************************************************)
(* Properties of formatRecommendations.                                    *)
(***************************************************************************)
strategyOrder == <<"multiline", "single", "glyph", "plain">>
Rank(strategy) == CHOOSE r \in 1..4 : strategyOrder[r] = strategy
Produced(strategy) ==
    CASE strategy = "multiline" -> multilineStrategy(recommendations)
      [] strategy = "single" -> singleLineStrategy(recommendations)
      [] strategy = "glyph" -> glyphSplitStrategy(recommendations)
      [] strategy = "plain" -> plainStrategy(recommendations)

\* C1: the strategies of part_002 run in the order multiline, single-line
\* global, glyph-split, plain; a strategy runs only while there is no item,
\* and once one of them has yielded an item no later one runs or adds an
\* item, so the items are exactly those of one strategy, the first that
\* yielded any.
C1_FirstProducerWins ==
    [][build = "part_002" =>
          /\ items # <<>> => (items' = items /\ ran' = ran)
          /\ ran' # ran =>
                \E s \in {"multiline", "single", "glyph", "plain"} :
                    /\ ran' = Append(ran, s)
                    /\ \A i \in 1..Len(ran) : Rank(ran[i]) < Rank(s)
                    /\ items' = Produced(s)
          /\ ran' = ran => items' = items]_vars

C1_Witness ==
    /\ pc = "done" /\ build = "part_002"
    /\ items # <<>> /\ ran # <<>> /\ ran[Len(ran)] = "single"

C4_NoDigitNoItem ==
    ~HasDigit(recommendations) =>
        /\ items = <<>>
        /\ pc = "done" => output.kind = "fallback"

C4_Witness ==
    /\ pc = "done" /\ ~HasDigit(recommendations) /\ output.kind = "fallback"
    /\ Includes(recommendations, <<"M", "-", " ", "m">>)

\* the texts of two or more lines "glyph name - integer unit" with distinct names
MarkedSequences ==
    {ms \in UNION {[1..k -> MarkedItems] : k \in 2..MaxTokens} :
        \A i, j \in 1..Len(ms) : i # j => ms[i].name # ms[j].name}

\* C5: a text whose every line is "glyph name - integer unit" yields one row
\* per line, in line order, with the bare name and "integer unit".
C5_OneRowPerMarkedLine ==
    \A ms \in MarkedSequences :
        (pc = "done" /\ recommendations = Join([i \in 1..Len(ms) |-> ms[i].line], <<"\n">>))
            => /\ output.kind = "table"
               /\ Len(output.rows) = Len(ms)
               /\ \A i \in 1..Len(ms) :
                     /\ output.rows[i].name = ms[i].name
                     /\ output.rows[i].quantity = ms[i].quantity

\* C6: no two rows of a result have names equal up to case.
C6_UniqueNames ==
    pc = "done" =>
        \A i, j \in 1..Len(output.rows) :
            i # j => toLowerCase(output.rows[i].name) # toLowerCase(output.rows[j].name)

\* the candidates that are the first of their name up to case, in their order
FirstOccurrences(found) ==
    LET first == {i \in 1..Len(found) : \A j \in 1..(i - 1) :
                     toLowerCase(found[j].name) # toLowerCase(found[i].name)}
    IN [n \in 1..Cardinality(first) |->
           found[CHOOSE i \in first : Cardinality({j \in first : j <= i}) = n]]

\* C7: the deduplication of script.js keeps, of the candidates that share a
\* name up to case, the first one as it is (casing and quantity), and keeps
\* the kept items in the order of their first occurrences.
C7_FirstOccurrenceKept ==
    [][(pc = "dedup" /\ pc' = "build") => items' = FirstOccurrences(items)]_vars

C7_Witness ==
    /\ pc = "done" /\ build = "script.js"
    /\ Len(output.rows) >= 2
    /\ Len(patternPass(recommendations)) > Len(output.rows)

EmptyTextHandled ==
    /\ lastReply.reply.type = "json"
    /\ Truthy(lastReply.reply.success)
    /\ lastReply.reply.recommendations = Str(<<>>)
    /\ dom.recommendationsText.kind # "empty"
    /\ dom.recommendationsText.req = lastReply.req

\* C9: when the provider's recommendations text is the empty string, the
\* outcome is the raw fallback with empty content and no error is shown.
C9_EmptyTextIsFallback ==
    EmptyTextHandled =>
        /\ dom.recommendationsText.kind = "fallback"
        /\ dom.recommendationsText.text = <<>>

\* C10: once every fetch has settled, the recommendations on the page are
\* those of the request submitted last; the response of an older request
\* never replaces the outcome of a newer one.
C10_NewestRequestRendered ==
    (pending = {} /\ dom.recommendationsText.kind # "empty") =>
        dom.recommendationsText.req = submitted

\* the reply handled by this step is a failure: the fetch rejected, the
\* status was not ok, or the document lacks success or recommendations
FailureHandled ==
    /\ lastReply' # lastReply
    /\ \/ lastReply'.reply.type \in {"reject", "status"}
       \/ /\ lastReply'.reply.type = "json"
          /\ \/ ~Truthy(lastReply'.reply.success)
             \/ ~Truthy(lastReply'.reply.recommendations)

\* C11: when the fetch rejects, answers a status that is not ok, or answers
\* a document without success and recommendations, the loading indicator
\* is hidden, recommendationsText is displayed and holds the error block of
\* that request, and no fetch is issued: the request leaves the pending
\* set, no request joins it and no request is counted.
C11_FailureShownNoRetry ==
    [][FailureHandled =>
          /\ ~dom'.recommendationsLoading
          /\ dom'.recommendationsTextShown
          /\ dom'.recommendationsText.kind = "error"
          /\ dom'.recommendationsText.req = lastReply'.req
          /\ pending' = pending \ {lastReply'.req}
          /\ submitted' = submitted]_vars

C11_Witness ==
    /\ lastReply.reply.type = "status"
    /\ pending = {}
    /\ dom.recommendationsSection
    /\ dom.recommendationsText = ErrorBlock("HTTP error! status", lastReply.req)

\* the reply handled by this step is a successful document with a
\* recommendations text and a detailed mapping
DetailedHandled ==
    /\ lastReply' # lastReply
    /\ lastReply'.reply.type = "json"
    /\ Truthy(lastReply'.reply.success)
    /\ Truthy(lastReply'.reply.recommendations)
    /\ Truthy(lastReply'.reply.detailed_recommendations)

\* the entry of a label yields bullets: a string with a bullet line
HasBullets(entry) == entry.t = "string" /\ formatRecommendationText(entry.v) # <<>>

\* what this step does to the content of a label: the bullets of its
\* entry, and no new bullet when the entry yields none
LabelProcessed(entry, content) ==
    IF HasBullets(entry)
    THEN dom'[content] = formatRecommendationText(entry.v)
    ELSE dom'[content] = <<>> \/ dom'[content] = dom[content]

\* C12: a detailed mapping with a missing, empty or non-string entry raises
\* no exception: the outcome of formatRecommendations for the response is
\* in recommendationsText, the label of such an entry gets no bullet and
\* the entries of the other labels are shown.
C12_MalformedEntryTolerated ==
    [][DetailedHandled =>
          LET detailed == lastReply'.reply.detailed_recommendations IN
          /\ dom'.recommendationsText =
                 Rendered(formatRecommendations(lastReply'.reply.recommendations.v),
                          lastReply'.req)
          /\ LabelProcessed(detailed.soil_loss, "soilLossContent")
          /\ LabelProcessed(detailed.soil_type, "soilTypeContent")
          /\ LabelProcessed(detailed.vegetation, "vegetationContent")]_vars

\* a number field holds no number or a negative one, or no soil type is
\* selected
FormInvalid ==
    \/ \E field \in NumberFields :
           LET num == parseFloat(form[field]) IN num.nan \/ num.n < 0
    \/ form.soilType = ""

C13_SanitizeIdempotent ==
    (call = "sanitizePdfText" /\ step = "done") => returned[2] = returned[1]

\* the printable characters of the Latin range among the code units
LatinPrintable == {"e", "U+00E9", "-", " "}

\* C14: the result of sanitizePdfText holds only printable characters of
\* the Latin range and line breaks.
C14_SanitizedIsLatin ==
    (call = "sanitizePdfText" /\ step # "call") =>
        \A i \in 1..Len(returned[1]) : returned[1][i] \in LatinPrintable \cup {"\n"}

(***************************************************************************)
(* Properties of getPlantEmoji.                                            *)
(***************************************************************************)
Glyphs == {PalmTree, Herb, DeciduousTree, SheafOfRice, Seedling, EvergreenTree}

\* C15: getPlantEmoji returns a glyph, which is not empty, for every name
\* that is not empty, and the same one when called again.
C15_GlyphForEveryName ==
    (call = "getPlantEmoji" /\ step = "done") =>
        /\ returned[1] \in Glyphs
        /\ returned[1] # <<>>
        /\ returned[2] = returned[1]

\* the words of the category heuristic and their glyphs, in order
CategoryWords ==
    << <<"t","r","e","e">>, <<"w","o","o","d">>, <<"g","r","a","s","s">>,
       <<"v","e","t","i","v","e","r">>, <<"b","a","m","b","o","o">>,
       <<"p","a","n","d","a","n">>, <<"c","o","c","o","n","u","t">>,
       <<"p","a","l","m">> >>
CategoryGlyphs ==
    << DeciduousTree, DeciduousTree, SheafOfRice, SheafOfRice, Herb, Herb,
       PalmTree, PalmTree >>

\* C20: the glyph is that of the table key the lowercased trimmed name
\* equals; otherwise that of a longest table key the name contains;
\* otherwise that of the first category word the name contains; otherwise
\* the default glyph.
C20_ResolutionOrder ==
    (call = "getPlantEmoji" /\ step # "call") =>
        LET name == Trim(toLowerCase(arg))
            keys == 1..Len(emojiMapKeys)
            contained == {k \in keys : Includes(name, emojiMapKeys[k])}
            words == {w \in 1..Len(CategoryWords) : Includes(name, CategoryWords[w])}
        IN IF \E k \in keys : emojiMapKeys[k] = name
           THEN \E k \in keys : emojiMapKeys[k] = name /\ returned[1] = emojiMapGlyphs[k]
           ELSE IF contained # {}
           THEN \E k \in contained :
                    /\ \A j \in contained : Len(emojiMapKeys[j]) <= Len(emojiMapKeys[k])
                    /\ returned[1] = emojiMapGlyphs[k]
           ELSE IF words # {}
           THEN returned[1] = CategoryGlyphs[CHOOSE w \in words : \A v \in words : w <= v]
           ELSE returned[1] = Seedling

(***************************************************************************)
(* Properties of formatRecommendationText.                                 *)
(***************************************************************************)
\* the content of a line "marker, space, content"
ContentOf(line) == SubSeq(line, 3, Len(line))

\* C16: of a block of bulleted lines, each with a content of more than the
\* minimum length, the bulletizer drops exactly the lines that are longer
\* than the length threshold and returns the contents of the others in
\* their order.
C16_LongLinesDropped ==
    (call = "formatRecommendationText" /\ step = "done") =>
        LET ls == IF arg = <<>> THEN <<>> ELSE Split(arg, "\n")
            short == SelectSeq(ls, LAMBDA l : Len(l) <= maxLineLength)
        IN (\A i \in 1..Len(ls) : /\ ls[i][1] \in {"-", "*"} /\ ls[i][2] = " "
                                    /\ Len(ContentOf(ls[i])) > minBulletLength) =>
               returned[1] = [i \in 1..Len(short) |-> ContentOf(short[i])]

(***************************************************************************)
(* Properties of the first pass of script.js.                              *)
(***************************************************************************)
\* a separator, a number, white space and a word at the end of the line
dataLinePattern ==
    << One(separators), Rep(WhiteSpace, 0, -1, TRUE), Rep(Digits, 1, -1, TRUE),
       Rep(WhiteSpace, 1, -1, TRUE), Rep(AsciiLetters, 1, -1, TRUE), Eol >>

\* C22: a line that holds a number next to a separator and a short
\* trailing word is never dropped by the noise filter: the first pass
\* takes it to the item patterns, which find its item, whatever other
\* words it holds.
C22_DataLineNeverDropped ==
    (call = "patternPass" /\ step = "done" /\ Test(arg, dataLinePattern)) =>
        /\ ~isNoise(Trim(arg))
        /\ returned[1] # <<>>

\* the bulletizer has returned
Bulletized == call = "formatRecommendationText" /\ step \in {"done", "collected"}

\* the lines of the advice block
AdviceLinesOf(text) == IF text = <<>> THEN <<>> ELSE Split(text, "\n")

\* the line has the bullet-marker shape: a hyphen, an asterisk, the bullet
\* glyph or a number with a period or parenthesis, then white space
HasMarker(line) ==
    LET t == Trim(line) IN
    \/ Len(t) >= 2 /\ t[1] \in {"-", "*", "U+2022"} /\ t[2] \in WhiteSpace
    \/ Len(t) >= 3 /\ t[1] \in Digits /\ t[2] \in {".", ")"} /\ t[3] \in WhiteSpace

\* sentence-ending punctuation followed by white space inside s
HasSentenceBreak(s) ==
    \E k \in 1..(Len(s) - 1) : s[k] \in {".", "?"} /\ s[k + 1] \in WhiteSpace

\* C21: when no line of a non-blank advice block has the bullet-marker
\* shape, the bulletizer returns at least one bullet and every bullet is a
\* clause of the split at sentence-ending punctuation.
C21_ProseSplitAtSentences ==
    (Bulletized /\ Trim(arg) # <<>>
        /\ \A i \in 1..Len(AdviceLinesOf(arg)) : ~HasMarker(AdviceLinesOf(arg)[i])) =>
        /\ returned[1] # <<>>
        /\ \A i \in 1..Len(returned[1]) : ~HasSentenceBreak(returned[1][i])

\* the line without its one leading marker
MarkerContent(line) ==
    LET t == Trim(line) IN
    IF t[1] \in Digits THEN Trim(SubSeq(t, 3, Len(t))) ELSE Trim(SubSeq(t, 2, Len(t)))

\* the bullet of a marked line: its content, none if the content is short
MarkedBullet(line) ==
    IF Len(MarkerContent(line)) > minBulletLength THEN <<MarkerContent(line)>> ELSE <<>>

\* C23: of a block whose lines all start with a bullet marker (a hyphen,
\* the bullet glyph, an asterisk or a number with a period or parenthesis)
\* and keep within the length threshold, the bulletizer returns for every
\* line its content with that one marker removed, and nothing for a line
\* whose content is shorter than the minimum.
C23_OneMarkerRemoved ==
    (Bulletized /\ arg # <<>>
        /\ \A i \in 1..Len(AdviceLinesOf(arg)) :
               /\ HasMarker(AdviceLinesOf(arg)[i])
               /\ Len(AdviceLinesOf(arg)[i]) <= maxLineLength) =>
        returned[1] = Flatten([i \in 1..Len(AdviceLinesOf(arg)) |->
                                  MarkedBullet(AdviceLinesOf(arg)[i])])

\* the displayed table of the finished export call
ExportedTable ==
    /\ call = "getRecommendationItemsForPdf" /\ step = "done"
    /\ returned[1].kind = "table"

\* the row is printable: the sanitizer leaves something of its name and of
\* its quantity
Printable(row) == sanitizePdfText(row.name) # <<>> /\ sanitizePdfText(row.quantity) # <<>>

\* the i-th exported item holds the sanitized name and quantity of row
SanitizedRow(item, row) ==
    /\ item.name = sanitizePdfText(row.name)
    /\ item.quantity = sanitizePdfText(row.quantity)

ScanIteration == call = "globalPattern" /\ returned' # returned

\* C18: the single-line scan of formatRecommendations ends on every text:
\* every iteration consumes at least one code unit, its match ending after
\* the position the scan had reached and within the text, and the loop is
\* left after finitely many iterations.
C18_ScanTerminates ==
    /\ [][ScanIteration =>
              /\ lastIndex(returned') > lastIndex(returned)
              /\ lastIndex(returned') <= Len(normalized(arg))]_vars
    /\ [](call = "globalPattern" => <>(step = "done"))

\* a scan of two iterations has ended
C18_Witness ==
    call = "globalPattern" /\ step = "done" /\ Len(returned) >= 2

(***************************************************************************)
(* Properties of the name normalization of script.js.                      *)
(***************************************************************************)
\* the descriptor words of lines 301, 344, 357, in lower case
DescriptorWords ==
    { <<"r","e","c","o","m","m","e","n","d","e","d">>,
      <<"t","r","e","e">>, <<"t","r","e","e","s">>,
      <<"p","l","a","n","t">>, <<"p","l","a","n","t","s">>,
      <<"c","l","u","m","p">>, <<"c","l","u","m","p","s">>,
      <<"c","l","u","s","t","e","r">>, <<"c","l","u","s","t","e","r","s">> }

\* the words of a name
WordsOf(name) == SelectSeq(Split(name, " "), LAMBDA w : w # <<>>)

\* the last word of the name is a descriptor word
EndsWithDescriptor(name) ==
    /\ WordsOf(name) # <<>>
    /\ toLowerCase(WordsOf(name)[Len(WordsOf(name))]) \in DescriptorWords

\* the first pass has returned the items of a data line
NamesNormalized == call = "patternPass" /\ step = "done" /\ arg \in NameLines

\* C24: the name of an emitted item begins with no plant glyph and its last
\* word is not a descriptor word, also when the raw name ended with several
\* descriptor words.
C24_NameHasNoGlyphNoDescriptor ==
    NamesNormalized =>
        \A i \in 1..Len(returned[1]) :
            /\ returned[1][i].name[1] \notin plantGlyphUnits
            /\ ~EndsWithDescriptor(returned[1][i].name)

RECURSIVE dropTrailingDescriptors(_)
\* the words of a name without its trailing descriptor words
dropTrailingDescriptors(ws) ==
    IF ws # <<>> /\ toLowerCase(ws[Len(ws)]) \in DescriptorWords
    THEN dropTrailingDescriptors(SubSeq(ws, 1, Len(ws) - 1))
    ELSE ws

\* the raw name of a data line: what stands before the separator, without
\* plant glyphs
rawNameOf(line) ==
    Trim(RemoveClass(SubSeq(line, 1, FirstIndexIn(line, separators, 1) - 1), plantGlyphUnits))

\* p is a prefix of s
IsPrefix(p, s) == Len(p) <= Len(s) /\ SubSeq(s, 1, Len(p)) = p

\* C25: the normalization removes whole trailing descriptor words only:
\* every word of the raw name that is not a trailing descriptor word is a
\* word of the emitted name, unchanged and at its place.
C25_OnlyWholeDescriptorsRemoved ==
    NamesNormalized =>
        \A i \in 1..Len(returned[1]) :
            IsPrefix(dropTrailingDescriptors(WordsOf(rawNameOf(arg))),
                     WordsOf(returned[1][i].name))

(***************************************************************************)
(* Properties of the single-line strategy of part_002.                     *)
(***************************************************************************)
\* the found item is the given one matched on its own: its name is a part
\* of the given item's glyph and name, its quantity the given number and
\* unit
MatchedOnItsOwn(found, item) ==
    /\ Includes(item.marker \o item.name, found.name)
    /\ found.quantity = item.number \o <<" ">> \o item.unit

\* C26: for a one-line text of several items one after another the
\* single-line strategy finds as many items as the line holds, and every
\* one of them on its own: its name holds no part of the item before it,
\* its unit no part of the item after it.
C26_EachItemOnItsOwn ==
    (call = "singleLineStrategy" /\ step = "done") =>
        \A its \in ItemRows :
            (Len(its) > 1 /\ arg = rowText(its)) =>
                /\ Len(returned[1]) = Len(its)
                /\ \A i \in 1..Len(its) : MatchedOnItsOwn(returned[1][i], its[i])

(***************************************************************************)
(* Properties of the page after a reset and after a submission.            *)
(***************************************************************************)
\* resetResults has run after the last valid submission: a submission
\* shows the results section (line 152), only the reset hides it again
\* (line 1163), and the settling of a fetch leaves it as it is
ResetSinceSubmission == submitted > 0 /\ ~dom.resultsSection

\* C27: after resetResults and until the next submission the
\* recommendations text is empty and the detailed sections and the footer
\* are hidden, also when a fetch started before the reset settles.
C27_ResetStaysClean ==
    ResetSinceSubmission =>
        /\ dom.recommendationsText = EmptyContent
        /\ ~dom.recommendationsFooter
        /\ ~dom.detailedRecommendationsSection
        /\ ~dom.soilLossRecommendations
        /\ ~dom.soilTypeRecommendations
        /\ ~dom.vegetationRecommendations

\* the fetch of request req has settled in this step
Settles(req) == req \in pending /\ req \notin pending'

\* the loading indicator is hidden and recommendationsText is displayed
\* with the table, the raw fallback or the error block of request req
OneOutcomeShown(d, req) ==
    /\ ~d.recommendationsLoading
    /\ d.recommendationsTextShown
    /\ d.recommendationsText.kind \in {"table", "fallback", "error"}
    /\ d.recommendationsText.req = req

\* C28: for every valid submission whose fetch settles, the step that
\* settles it hides the loading indicator and leaves in recommendationsText
\* exactly one of the item table, the raw fallback and the error block, and
\* every pending request comes to that state.
C28_SubmissionEndsInOneOutcome ==
    /\ [][\A req \in 1..MaxRequests : Settles(req) => OneOutcomeShown(dom', req)]_vars
    /\ \A req \in 1..MaxRequests :
           (req \in pending) ~> (req \notin pending /\ OneOutcomeShown(dom, lastReply.req))

\* two submissions have settled, the second one last and in a table
C28_Witness ==
    /\ submitted = 2 /\ pending = {}
    /\ lastReply.req = 2
    /\ OneOutcomeShown(dom, 2)
    /\ dom.recommendationsText.kind = "table"

\* the three detailed sections: the container and the element of its bullets
DetailedSections ==
    { <<"soilLossRecommendations", "soilLossContent">>,
      <<"soilTypeRecommendations", "soilTypeContent">>,
      <<"vegetationRecommendations", "vegetationContent">> }

\* C29: a detailed section container that is displayed holds at least one
\* bullet; a section whose text yields no bullet is not displayed.
C29_ShownSectionHasBullet ==
    \A section \in DetailedSections : dom[section[1]] => dom[section[2]] # <<>>

(***************************************************************************)
(* Properties of the PDF download without a library.                       *)
(***************************************************************************)
\* no constructor is found; the library script defines its globals once,
\* so none was found before either
NoLibraryFound == getJsPDFLibrary(pdf.window) = "null"

\* C30: while the PDF library is not available, every call of downloadPDF
\* sets exactly one timer, the callback of a timer raises exactly one alert
\* and sets no timer, and nothing is saved: every call has either its one
\* timer waiting or its one alert raised, and the timers that wait come to
\* an end.
C30_OneRecheckOneAlert ==
    /\ [](NoLibraryFound =>
              /\ pdf.timers + pdf.alerts = pdf.calls
              /\ pdf.saved = 0 /\ pdf.errors = 0)
    /\ [][(NoLibraryFound' /\ pdf'.calls = pdf.calls + 1) =>
              /\ pdf'.timers = pdf.timers + 1
              /\ pdf'.alerts = pdf.alerts]_vars
    /\ [][(NoLibraryFound' /\ pdf'.timers < pdf.timers) =>
              /\ pdf'.timers = pdf.timers - 1
              /\ pdf'.alerts = pdf.alerts + 1
              /\ pdf'.calls = pdf.calls]_vars
    /\ (NoLibraryFound /\ pdf.timers > 0) ~> (pdf.timers = 0 \/ ~NoLibraryFound)

\* two downloads were asked for without a library; both timers have fired
\* and two alerts were raised
C30_Witness ==
    /\ NoLibraryFound
    /\ pdf.calls = 2 /\ pdf.timers = 0 /\ pdf.alerts = 2 /\ pdf.saved = 0
====
